---- MODULE Spec2Model ----
(***************************************************************************)
(* Model of the ctmon ingest pipeline: the Rekor ingester (concurrent      *)
(* range fetch, ordered batch collector, entry parser, sink) and the CT    *)
(* ingester (sequential range fetch, leaf parser, sink), with the circuit  *)
(* breaker the sink uses.                                                  *)
(*                                                                         *)
(* Strings the code splits and trims are sequences of tokens: " " and "\n" *)
(* are the whitespace tokens, " - " is the separator of a checkpoint's     *)
(* first line, every other token is an opaque run of characters.           *)
(***************************************************************************)
EXTENDS Integers, Sequences, FiniteSets, TLC

\* ---------------------------------------------------------------- bounds
\* Largest number of leaves (global indices 0..MaxLog-1) the remote log holds.
MaxLog == 4
\* Largest value of the -concurrency flag.
MaxConc == 2
\* Value of the -batch_size flag (entries per request).
BatchSizeFlag == 2
\* Number of faults the environment may inject in one behaviour.
MaxFaults == 1
\* Number of times the process is started.
MaxRuns == 2
\* Scaled dbBatchSize (rows per flush) and logChannelBuffer (queue capacity).
DbBatchSize == 2
LogChannelBuffer == 3
\* Largest failure count and clock value explored for the stand-alone breaker.
MaxFailures == 12
MaxClock == 64
\* Largest number of rate-limited responses one behaviour of the retry
\* wrappers exercised alone receives.
MaxRateLimits == 2
\* The rate governor exercised alone: largest ceiling, number of rate-limit
\* events, chunk successes between two clock steps, seconds in a clock step
\* and largest clock value.
MaxCeiling == 4
MaxEvents == 3
MaxChunksPerTick == 1
TickSeconds == 5
MaxGovClock == 45
\* The collector exercised alone: sub-batches of the chunk, and the capacity
\* of the result channel (100 in NewOrderedBatchCollector, scaled down with
\* the number of sub-batches: the -concurrency flag admits up to 500).
\* The sink exercised alone: rows its producer sends, and rows that can wait
\* in the queue when the sink looks at it (those buffered and those the
\* producer sends while the sink drains).
MaxRows == 6
\* The proxy pool exercised alone: draws between two refreshes, and refreshes.
MaxDraws == 7
MaxRefreshes == 3
MaxQueued == 5
MaxWorkers == 4
ResultChanCapacity == 2

\* ------------------------------------------------------ program constants
maxRetries == 5
circuitBreakerLimit == 10
circuitBreakerTimeout == 60
\* -batch_size is refused above this (the limit of the Rekor API).
maxBatchSizeFlag == 10

\* ------------------------------------------------------------- strings
SEP == " - "
IsSpace(t) == t = " " \/ t = "\n"

RECURSIVE TrimLeft(_)
TrimLeft(s) == IF s # <<>> /\ IsSpace(Head(s)) THEN TrimLeft(Tail(s)) ELSE s

RECURSIVE TrimRight(_)
TrimRight(s) ==
    IF s # <<>> /\ IsSpace(s[Len(s)]) THEN TrimRight(SubSeq(s, 1, Len(s) - 1)) ELSE s

\* strings.TrimSpace
TrimSpace(s) == TrimRight(TrimLeft(s))

\* strings.Split: n separators give n+1 parts, the empty string gives one part.
RECURSIVE Split(_, _)
Split(s, sep) ==
    IF \A i \in 1..Len(s) : s[i] # sep
    THEN <<s>>
    ELSE LET k == CHOOSE i \in 1..Len(s) : s[i] = sep /\ \A j \in 1..(i - 1) : s[j] # sep
         IN  <<SubSeq(s, 1, k - 1)>> \o Split(SubSeq(s, k + 1, Len(s)), sep)

\* ------------------------------------------------------------ checkpoints
ActiveTreeID == <<"T2">>
InactiveTreeID == <<"T1">>

\* A well-formed checkpoint of tree t: origin line, size, root hash, blank
\* line, signature line.
CheckpointOf(t) ==
    <<"rekor.sigstore.dev", SEP>> \o t \o
    <<"\n", "42", "\n", "roothash", "\n", "\n", "sig", "\n">>

CkEmpty == <<>>
CkShort == <<"rekor.sigstore.dev", SEP>> \o ActiveTreeID \o <<"\n", "42", "\n">>

\* parseCheckpointTreeID: [err, treeID]
ParseErr == [err |-> TRUE, treeID |-> <<>>]
parseCheckpointTreeID(checkpoint) ==
    LET lines == Split(TrimSpace(checkpoint), "\n") IN
    IF Len(lines) < 3 THEN ParseErr
    ELSE LET parts == Split(lines[1], SEP) IN
         IF Len(parts) # 2 THEN ParseErr
         ELSE LET treeID == TrimSpace(parts[2]) IN
              IF treeID = <<>> THEN ParseErr
              ELSE [err |-> FALSE, treeID |-> treeID]

\* validateCheckpointTreeID: TRUE when the checkpoint is accepted (nil error).
validateCheckpointTreeID(checkpoint, expectedTreeID) ==
    IF checkpoint = <<>> THEN FALSE
    ELSE LET p == parseCheckpointTreeID(checkpoint) IN
         IF p.err THEN FALSE
         ELSE p.treeID = expectedTreeID

\* --------------------------------------------------------- entry bodies
\* A body is base64 text of a JSON document; the model keeps the two facts
\* the decoder depends on.
BodyGood == [b64 |-> TRUE, json |-> TRUE]
BodyNotJSON == [b64 |-> TRUE, json |-> FALSE]

\* parseEntryBody: TRUE when it returns an entry body (nil error).
parseEntryBody(body) ==
    IF ~body.b64 THEN FALSE
    ELSE body.json

\* -------------------------------------------------------- shard arithmetic
RECURSIVE SumSeq(_)
SumSeq(s) == IF s = <<>> THEN 0 ELSE Head(s) + SumSeq(Tail(s))

calculateInactiveShardTotalSize(info) == SumSeq(info.InactiveShards)
\* A plausible slip: the size of the active tree alone.
calculateTotalLogSizeActiveTree(info) == info.TreeSize
calculateTotalLogSize(info) == info.TreeSize + SumSeq(info.InactiveShards)
convertTreeIndexToGlobalIndex(treeIndex, info) ==
    treeIndex + calculateInactiveShardTotalSize(info)

\* ------------------------------------------------------------------ time
\* Clock readings are whole seconds from 0. ZeroTime is the zero time.Time a
\* field holds until it is first set: time.Since of it exceeds every duration.
ZeroTime == -1
SinceExceeds(t, x, d) == x = ZeroTime \/ t - x > d

\* -------------------------------------------------------- circuit breaker
\* A breaker is [state, failureCount, lastFailure]; t is the clock reading.
NewCircuitBreaker == [state |-> "closed", failureCount |-> 0, lastFailure |-> ZeroTime]

\* A plausible slip: the cool-down is forgotten, an open breaker allows at once.
canExecuteNoCoolDown(c, t) ==
    IF c.state = "closed" THEN TRUE
    ELSE IF c.state = "open" THEN TRUE
    ELSE c.state = "half-open"

\* canExecute: the value returned, and the breaker after the call.
canExecute(c, t) ==
    IF c.state = "closed" THEN TRUE
    ELSE IF c.state = "open" /\ SinceExceeds(t, c.lastFailure, circuitBreakerTimeout) THEN TRUE
    ELSE c.state = "half-open"

afterCanExecute(c, t) ==
    IF c.state = "closed" THEN c
    ELSE IF c.state = "open" /\ SinceExceeds(t, c.lastFailure, circuitBreakerTimeout)
         THEN [c EXCEPT !.state = "half-open"]
    ELSE c

recordSuccess(c) == [c EXCEPT !.failureCount = 0, !.state = "closed"]

\* A plausible slip: the breaker opens one failure late.
recordFailureLate(c, t) ==
    LET n == c.failureCount + 1 IN
    [c EXCEPT !.failureCount = n,
              !.lastFailure = t,
              !.state = IF n > circuitBreakerLimit THEN "open" ELSE @]

recordFailure(c, t) ==
    LET n == c.failureCount + 1 IN
    [c EXCEPT !.failureCount = n,
              !.lastFailure = t,
              !.state = IF n >= circuitBreakerLimit THEN "open" ELSE @]

\* ----------------------------------------------------------- rate governor
\* RateLimitTracker: the fields OnRateLimit and OnChunkSuccess read and write.
NewRateLimitTracker(initialConcurrency) ==
    [rateLimited |-> FALSE,
     currentConcurrency |-> initialConcurrency,
     originalConcurrency |-> initialConcurrency,
     rateLimitCount |-> 0,
     lastRateLimit |-> ZeroTime,
     successfulChunks |-> 0,
     lastRecoveryStep |-> ZeroTime]

OnRateLimitDecrement(r, t) ==
    LET less == r.currentConcurrency - 1
        newConcurrency == IF less < 1 THEN 1 ELSE less
    IN  [r EXCEPT !.rateLimited = TRUE,
                  !.rateLimitCount = @ + 1,
                  !.lastRateLimit = t,
                  !.successfulChunks = 0,
                  !.currentConcurrency = newConcurrency]

\* A plausible slip: the halved value is not held at 1.
OnRateLimitNoFloor(r, t) ==
    [r EXCEPT !.rateLimited = TRUE,
              !.rateLimitCount = @ + 1,
              !.lastRateLimit = t,
              !.successfulChunks = 0,
              !.currentConcurrency = r.currentConcurrency \div 2]

OnRateLimit(r, t) ==
    LET half == r.currentConcurrency \div 2
        newConcurrency == IF half < 1 THEN 1 ELSE half
    IN  [r EXCEPT !.rateLimited = TRUE,
                  !.rateLimitCount = @ + 1,
                  !.lastRateLimit = t,
                  !.successfulChunks = 0,
                  !.currentConcurrency = newConcurrency]

OnChunkSuccessEager(r, t) ==
    IF ~r.rateLimited THEN r
    ELSE LET doubled == r.currentConcurrency * 2 IN
         IF doubled >= r.originalConcurrency
         THEN [r EXCEPT !.currentConcurrency = r.originalConcurrency,
                        !.rateLimited = FALSE,
                        !.rateLimitCount = 0,
                        !.successfulChunks = 0,
                        !.lastRecoveryStep = t]
         ELSE [r EXCEPT !.currentConcurrency = doubled,
                        !.successfulChunks = 0,
                        !.lastRecoveryStep = t]

OnChunkSuccessHolding(r, t) ==
    IF ~r.rateLimited THEN r
    ELSE [r EXCEPT !.successfulChunks = @ + 1]

OnChunkSuccess(r, t) ==
    IF ~r.rateLimited THEN r
    ELSE LET n == r.successfulChunks + 1
             r1 == [r EXCEPT !.successfulChunks = n]
         IN  IF SinceExceeds(t, r.lastRateLimit, 15) /\ n >= 2
                    /\ SinceExceeds(t, r.lastRecoveryStep, 10)
             THEN LET doubled == r.currentConcurrency * 2 IN
                  IF doubled >= r.originalConcurrency
                  THEN [r1 EXCEPT !.currentConcurrency = r.originalConcurrency,
                                  !.rateLimited = FALSE,
                                  !.rateLimitCount = 0,
                                  !.successfulChunks = 0,
                                  !.lastRecoveryStep = t]
                  ELSE [r1 EXCEPT !.currentConcurrency = doubled,
                                  !.successfulChunks = 0,
                                  !.lastRecoveryStep = t]
             ELSE r1

\* ------------------------------------------------- ordered batch collector
\* OrderedBatchCollector: [batches, nextExpected, resultChan, closed, closes].
\* closes counts the executions of close(obc.resultChan).
\* batches is the map from batch index to BatchResult.
NewOrderedBatchCollector ==
    [batches |-> {}, nextExpected |-> 0, resultChan |-> <<>>, closed |-> FALSE,
     closes |-> 0]

HasBatch(c, k) == \E r \in c.batches : r.BatchIndex = k
GetBatch(c, k) == CHOOSE r \in c.batches : r.BatchIndex = k
DeleteBatch(bs, k) == {r \in bs : r.BatchIndex # k}

\* The emit loop of AddResult: send every consecutive result from nextExpected.
RECURSIVE EmitConsecutive(_)
EmitConsecutive(c) ==
    IF HasBatch(c, c.nextExpected)
    THEN EmitConsecutive([c EXCEPT
             !.resultChan = Append(@, GetBatch(c, c.nextExpected)),
             !.batches = DeleteBatch(@, c.nextExpected),
             !.nextExpected = @ + 1])
    ELSE c

\* A plausible slip: the result goes to the channel as soon as it arrives.
AddResultUnordered(c, result) ==
    IF c.closed THEN c
    ELSE [c EXCEPT !.resultChan = Append(@, result)]

\* AddResult (the result channel has room for every result of a chunk).
AddResult(c, result) ==
    IF c.closed THEN c
    ELSE EmitConsecutive(
             [c EXCEPT !.batches = DeleteBatch(@, result.BatchIndex) \cup {result}])

\* A plausible slip: Close without the closed flag's guard.
CloseCollectorUnguarded(c) == [c EXCEPT !.closed = TRUE, !.closes = @ + 1]

\* Close
CloseCollector(c) ==
    IF ~c.closed THEN [c EXCEPT !.closed = TRUE, !.closes = @ + 1] ELSE c

\* ------------------------------------------------------------ Rekor entries
\* The entry the log holds at global index g (shards: the inactive shard sizes):
\* the top-level logIndex is global, the inclusion proof's logIndex is local to
\* the tree that holds the leaf, whose checkpoint names that tree.
LogEntryAt(g, shards) ==
    LET inactive == SumSeq(shards) IN
    [LogIndex |-> g,
     UUID |-> <<"uuid">>,
     Body |-> BodyGood,
     HasProof |-> TRUE,
     ProofLogIndex |-> IF g >= inactive THEN g - inactive ELSE g,
     Checkpoint |-> CheckpointOf(IF g >= inactive THEN ActiveTreeID ELSE InactiveTreeID)]

\* An error text is the sequence of its parts; the entry's uuid, the key the
\* response gives the entry, is a part of some of them.
CheckpointPhrase == "Checkpoint tree ID validation failed"
\* strings.Contains(err.Error(), phrase)
ErrorContains(text, phrase) == \E k \in 1..Len(text) : text[k] = phrase

\* What a faulty or hostile response does to one entry ("body_json_uuid": a
\* body that is no JSON under a uuid that holds the checkpoint phrase).
EntryFaults == {"body_json", "body_json_uuid", "ck_empty", "ck_other", "ck_short", "noproof"}

FaultyEntry(e, kind) ==
    CASE kind = "body_json" -> [e EXCEPT !.Body = BodyNotJSON]
      [] kind = "body_json_uuid" ->
             [e EXCEPT !.Body = BodyNotJSON, !.UUID = <<"uuid", CheckpointPhrase>>]
      [] kind = "ck_empty"  -> [e EXCEPT !.Checkpoint = CkEmpty]
      [] kind = "ck_other"  -> [e EXCEPT !.Checkpoint = CheckpointOf(<<"T_OTHER">>)]
      [] kind = "ck_short"  -> [e EXCEPT !.Checkpoint = CkShort]
      [] kind = "noproof"   -> [e EXCEPT !.HasProof = FALSE]
      [] OTHER              -> e

\* parseRekorEntry: status "fatal" (log.Fatalf on a missing proof), "checkpoint"
\* (checkpoint validation error), "error" (any other error) or "ok" with the
\* row; err is the text of the error returned, which embeds the uuid.
NoDetails == [TreeID |-> <<>>, LogIndex |-> -1, EntryUUID |-> -1, Body |-> BodyNotJSON]

\* A plausible slip: the row is built without validating the checkpoint.
parseRekorEntryUnchecked(entry, treeID) ==
    IF ~entry.HasProof THEN [status |-> "fatal", details |-> NoDetails, err |-> <<>>]
    ELSE IF ~parseEntryBody(entry.Body)
         THEN [status |-> "error", details |-> NoDetails,
               err |-> <<"failed to parse entry body for UUID">> \o entry.UUID]
    ELSE [status |-> "ok", err |-> <<>>,
          details |-> [TreeID |-> treeID, LogIndex |-> entry.ProofLogIndex,
                       EntryUUID |-> entry.LogIndex, Body |-> entry.Body]]

parseRekorEntry(entry, treeID) ==
    IF ~entry.HasProof THEN [status |-> "fatal", details |-> NoDetails, err |-> <<>>]
    ELSE IF ~validateCheckpointTreeID(entry.Checkpoint, treeID)
         THEN [status |-> "checkpoint", details |-> NoDetails,
               err |-> <<"CRITICAL:", CheckpointPhrase, "for entry UUID">> \o entry.UUID]
    ELSE IF ~parseEntryBody(entry.Body)
         THEN [status |-> "error", details |-> NoDetails,
               err |-> <<"failed to parse entry body for UUID">> \o entry.UUID]
    ELSE [status |-> "ok", err |-> <<>>,
          details |-> [TreeID |-> treeID, LogIndex |-> entry.ProofLogIndex,
                       EntryUUID |-> entry.LogIndex, Body |-> entry.Body]]

\* --------------------------------------------------------------- the store
RECURSIVE MaxOf(_)
MaxOf(S) == LET x == CHOOSE y \in S : TRUE IN
            IF S = {x} THEN x
            ELSE LET m == MaxOf(S \ {x}) IN IF x > m THEN x ELSE m

\* SELECT MAX(log_index) scanned into a sql.NullInt64. log_index is a UInt64
\* column that is not Nullable (schema.sql), so the store answers MAX over no
\* row with one row holding 0, not NULL: Valid is true on every answer.
selectMaxLogIndex(idx) ==
    [Valid |-> TRUE, Int64 |-> IF idx = {} THEN 0 ELSE MaxOf(idx)]

\* getLatestLogIndex: SELECT MAX(log_index) WHERE tree_id = ?; 0 on a NULL
\* answer, otherwise the answer plus one.
getLatestLogIndex(db, treeID) ==
    LET maxIndex == selectMaxLogIndex(
            {db[k].LogIndex : k \in {j \in 1..Len(db) : db[j].TreeID = treeID}})
    IN  IF ~maxIndex.Valid THEN 0 ELSE maxIndex.Int64 + 1

Min(a, b) == IF a < b THEN a ELSE b

\* ------------------------------------------------------------ proxy pool
\* A proxy list is a sequence of lines, a line a sequence of characters.
HasPrefix(s, t) == Len(s) >= 1 /\ s[1] = t

\* bufio.Scanner with its default buffer gives up (ErrTooLong) on a line of
\* MaxScanTokenSize bytes or more. LongRun is one piece of text that stands for
\* a run of that many characters; every other piece is one character.
MaxScanTokenSize == 65536
LongRun == "a run of 65536 characters"
ByteLen(line) ==
    SumSeq([i \in 1..Len(line) |-> IF line[i] = LongRun THEN MaxScanTokenSize ELSE 1])
LineTooLong(line) == ByteLen(line) >= MaxScanTokenSize

\* scanner.Err() after the loop: Scan() has stopped at a line too long.
scannerErr(content) == \E i \in 1..Len(content) : LineTooLong(content[i])

\* The scan loop of parseProxyContent and of NewProxyPool: the proxies of the
\* well-formed lines, up to the line where Scan() stops.
RECURSIVE parseProxyLines(_)
parseProxyLines(content) ==
    IF content = <<>> \/ LineTooLong(Head(content)) THEN <<>>
    ELSE LET line == TrimSpace(Head(content))
             parts == Split(line, ":")
             rest == parseProxyLines(Tail(content))
         IN  IF line = <<>> \/ HasPrefix(line, "#") THEN rest
             ELSE IF Len(parts) # 4 THEN rest
             ELSE <<[Host |-> parts[1], Port |-> parts[2],
                     Username |-> parts[3], Password |-> parts[4]]>> \o rest

\* A plausible slip: a list without a valid entry is a result like any other.
parseProxyContentLenient(content) ==
    [ok |-> TRUE, proxies |-> parseProxyLines(content)]

\* parseProxyContent: blank lines and # comments are skipped, lines that do not
\* have 4 fields are skipped with a warning; a scanner error is an error
\* whatever was read before it, and so is no proxy at all.
parseProxyContent(content) ==
    LET proxies == parseProxyLines(content)
    IN  IF scannerErr(content) THEN [ok |-> FALSE, proxies |-> <<>>]
        ELSE IF Len(proxies) = 0 THEN [ok |-> FALSE, proxies |-> <<>>]
        ELSE [ok |-> TRUE, proxies |-> proxies]

\* NewProxyPool on the file [name, openErr, content]: no name, a file that
\* does not open, a scanner error and a file without a valid proxy are errors.
NewProxyPool(file) ==
    LET proxies == parseProxyLines(file.content)
    IN  IF file.name = "" THEN [ok |-> FALSE, proxies |-> <<>>]
        ELSE IF file.openErr THEN [ok |-> FALSE, proxies |-> <<>>]
        ELSE IF scannerErr(file.content) THEN [ok |-> FALSE, proxies |-> <<>>]
        ELSE IF Len(proxies) = 0 THEN [ok |-> FALSE, proxies |-> <<>>]
        ELSE [ok |-> TRUE, proxies |-> proxies]

\* fetchProxyListFromURL on the response resp = [err, status, body].
fetchProxyListFromURL(resp) ==
    IF resp.err THEN [ok |-> FALSE, proxies |-> <<>>]
    ELSE IF resp.status # 200 THEN [ok |-> FALSE, proxies |-> <<>>]
    ELSE parseProxyContent(resp.body)

\* ProxyPool: [proxies, current]; NoPool is the nil pool.
NoPool == [proxies |-> <<>>, current |-> 0]

\* A plausible slip: the cursor is not advanced.
GetNextProxySticky(pool) ==
    IF Len(pool.proxies) = 0 THEN [found |-> FALSE, index |-> 0, pool |-> pool]
    ELSE [found |-> TRUE, index |-> pool.current, pool |-> pool]

\* GetNextProxy: the entry under the cursor (found: not nil), the cursor
\* advanced by one modulo the length.
GetNextProxy(pool) ==
    IF Len(pool.proxies) = 0 THEN [found |-> FALSE, index |-> 0, pool |-> pool]
    ELSE [found |-> TRUE, index |-> pool.current,
          pool |-> [pool EXCEPT !.current = (pool.current + 1) % Len(pool.proxies)]]

\* The refresh task's ticker case with the list it fetched.
RefreshPool(pool, fetched) ==
    IF ~fetched.ok THEN pool
    ELSE [proxies |-> fetched.proxies, current |-> 0]

\* ------------------------------------------------- CT get-entries with retry
\* What one attempt of fetchEntries gets: the status line of the response, the
\* text of its body (for a status other than 200) and, for 200, whether the
\* decoded entries list holds leaves. A body is a sequence of pieces of text.
StatusOK == "200 OK"
StatusBadRequest == "400 Bad Request"
OkEntries == [Status |-> StatusOK, Body |-> <<>>, Entries |-> "entries"]
OkEmpty == [Status |-> StatusOK, Body |-> <<>>, Entries |-> "empty"]
BadRequest == [Status |-> StatusBadRequest, Body |-> <<>>, Entries |-> "none"]
BadRequestOtherReason == [Status |-> "400 Bad request", Body |-> <<>>, Entries |-> "none"]
ServerError == [Status |-> "500 Internal Server Error", Body |-> <<>>, Entries |-> "none"]
ServerErrorRelaying400 ==
    [Status |-> "500 Internal Server Error", Body |-> <<StatusBadRequest>>, Entries |-> "none"]
ServerErrorNamingEndOfLog ==
    [Status |-> "500 Internal Server Error", Body |-> <<"end_of_log:">>, Entries |-> "none"]
GetEntriesResponses ==
    {OkEntries, OkEmpty, BadRequest, BadRequestOtherReason, ServerError,
     ServerErrorRelaying400, ServerErrorNamingEndOfLog}

\* fetchEntries: the response for status 200, else an error whose text holds
\* the status line and the body. err = <<>> stands for nil.
fetchEntries(response) ==
    IF response.Status = StatusOK
    THEN [resp |-> response.Entries, err |-> <<>>]
    ELSE [resp |-> "nil",
          err |-> <<"http request failed with status", response.Status>> \o response.Body]

\* strings.Contains(err.Error(), "400 Bad Request") over the whole text.
isEndOfLogError(err) == err # <<>> /\ ErrorContains(err, StatusBadRequest)

\* The loop of fetchEntriesWithRetry from attempt on; responses[attempt + 1] is
\* what the attempt gets. The last attempt breaks out of the loop before the
\* end-of-log test. The error returned wraps the error of the last attempt.
RECURSIVE fetchEntriesAttempts(_, _)
fetchEntriesAttempts(responses, attempt) ==
    LET got == fetchEntries(responses[attempt + 1]) IN
    IF got.err = <<>>
    THEN [resp |-> got.resp, err |-> <<>>, attempts |-> attempt + 1]
    ELSE IF attempt = maxRetries
    THEN [resp |-> "nil", err |-> <<"failed after attempts">> \o got.err,
          attempts |-> attempt + 1]
    ELSE IF isEndOfLogError(got.err)
    THEN [resp |-> "nil", err |-> <<"end_of_log:">> \o got.err, attempts |-> attempt + 1]
    ELSE fetchEntriesAttempts(responses, attempt + 1)

fetchEntriesWithRetry(responses) == fetchEntriesAttempts(responses, 0)

\* What the fetch loop does with the result of fetchEntriesWithRetry: process
\* the entries, wait for the polling interval, or return. The end-of-log test
\* is strings.Contains(err.Error(), "end_of_log:") over the whole text.
afterFetchEntries(result) ==
    IF result.err # <<>> \/ result.resp = "empty"
    THEN IF (result.resp # "nil" /\ result.resp = "empty")
            \/ ErrorContains(result.err, "end_of_log:")
         THEN "poll"
         ELSE "return"
    ELSE "process"

\* The answers of the log to one call: the closing answer at once, or after a
\* plain server error on every attempt but the last.
AnswersOf(k, last) == [i \in 1..(maxRetries + 1) |-> IF i <= k THEN ServerError ELSE last]
GetEntriesRuns == {AnswersOf(k, last) : k \in {0, maxRetries}, last \in GetEntriesResponses}

\* ------------------------------------------------------ CT leaf decoding
CTLogID == <<"ct.example/log">>

\* A leaf_input as the decoder sees it: whether it is base64, which structure
\* it unmarshals as ("leaf": MerkleTreeLeaf, "tsentry": a bare TimestampedEntry,
\* "none"), its version and leaf type, its entry type and whether the
\* certificate in it parses.
LeafGood ==
    [b64 |-> TRUE, wire |-> "leaf", version |-> 0, leafType |-> 0,
     entryType |-> "x509", certOK |-> TRUE]
CTLeafFaults == {"badcert", "notb64", "garbage", "version"}
FaultyLeaf(kind) ==
    CASE kind = "badcert" -> [LeafGood EXCEPT !.certOK = FALSE]
      [] kind = "notb64"  -> [LeafGood EXCEPT !.b64 = FALSE]
      [] kind = "garbage" -> [LeafGood EXCEPT !.wire = "none"]
      [] kind = "version" -> [LeafGood EXCEPT !.version = 1]
      [] OTHER            -> LeafGood

\* parseLogEntry: [ok, details]; a certificate that does not parse still gives
\* a row, with the fields derived from it missing.
NoCertificate == [LogID |-> <<>>, LogIndex |-> -1, LeafInput |-> LeafGood,
                  EntryType |-> "", Parsed |-> FALSE]
parseLogEntry(rawEntry, logID, currentLogIndex) ==
    IF ~rawEntry.b64 THEN [ok |-> FALSE, details |-> NoCertificate]
    ELSE IF rawEntry.wire = "none" THEN [ok |-> FALSE, details |-> NoCertificate]
    ELSE LET version == IF rawEntry.wire = "leaf" THEN rawEntry.version ELSE 0
             leafType == IF rawEntry.wire = "leaf" THEN rawEntry.leafType ELSE 0
         IN  IF version # 0 THEN [ok |-> FALSE, details |-> NoCertificate]
             ELSE IF leafType # 0 THEN [ok |-> FALSE, details |-> NoCertificate]
             ELSE IF rawEntry.entryType = "x509"
                  THEN [ok |-> TRUE,
                        details |-> [LogID |-> logID, LogIndex |-> currentLogIndex,
                                     LeafInput |-> rawEntry, EntryType |-> "x509_entry",
                                     Parsed |-> rawEntry.certOK]]
             ELSE IF rawEntry.entryType = "precert"
                  THEN [ok |-> TRUE,
                        details |-> [LogID |-> logID, LogIndex |-> currentLogIndex,
                                     LeafInput |-> rawEntry, EntryType |-> "precert_entry",
                                     Parsed |-> FALSE]]
             ELSE [ok |-> FALSE, details |-> NoCertificate]

\* A plausible slip: the CT ingester resumes at the highest stored index itself.
ctGetLatestLogIndexNoSuccessor(db, logID) ==
    LET maxIndex == selectMaxLogIndex(
            {db[k].LogIndex : k \in {j \in 1..Len(db) : db[j].LogID = logID}})
    IN  IF ~maxIndex.Valid THEN 0 ELSE maxIndex.Int64

\* getLatestLogIndex of the CT ingester: MAX(log_index) WHERE log_id = ?; 0 on a
\* NULL answer, otherwise the answer plus one.
ctGetLatestLogIndex(db, logID) ==
    LET maxIndex == selectMaxLogIndex(
            {db[k].LogIndex : k \in {j \in 1..Len(db) : db[j].LogID = logID}})
    IN  IF ~maxIndex.Valid THEN 0 ELSE maxIndex.Int64 + 1

\* ------------------------------------------------------ PGP packet framing
\* Octets are 0..255 and a packet stream is a sequence of octets. Lengths are
\* Go ints (64 bits wide on a 64-bit build: no value below wraps); a length is
\* held here as <<high, low>> with 16 bits in the low part, so that 1<<31 and a
\* 32-bit big-endian number are represented exactly.
Wide(n) == <<n \div 65536, n % 65536>>
WideAdd(w, n) == <<w[1] + ((w[2] + n) \div 65536), (w[2] + n) % 65536>>
\* w > n for a buffer length n (below 65536)
WideGT(w, n) == w[1] > 0 \/ w[2] > n
\* 1 << k, 0 <= k <= 31
WideShl1(k) == IF k < 16 THEN <<0, 2 ^ k>> ELSE <<2 ^ (k - 16), 0>>
\* binary.BigEndian.Uint16 and Uint32
Uint16BE(b) == Wide(b[1] * 256 + b[2])
Uint32BE(b) == <<b[1] * 256 + b[2], b[3] * 256 + b[4]>>

\* parsePublicKeyPacket, as far as it can fail: fewer than 6 octets, a version
\* other than 4, an RSA (1) or DSA (17) key without the 2 octets of its size.
parsePublicKeyPacketError(body) ==
    IF Len(body) < 6 THEN "insufficient data for public key packet"
    ELSE IF body[1] # 4 THEN "unsupported key version"
    ELSE IF body[6] = 1 /\ Len(body) < 8 THEN "insufficient data for RSA key"
    ELSE IF body[6] = 17 /\ Len(body) < 8 THEN "insufficient data for DSA key"
    ELSE ""

PacketError(e) ==
    [err |-> e, consumed |-> 0, packetType |-> -1, packetLen |-> Wide(0),
     totalLen |-> Wide(0), bodyStart |-> 0]

\* The tail of parsePGPPacket once packetLen and totalLen are set: the bounds
\* test, the body, and the parse of packet types 6, 14 and 13.
framedPacket(data, packetType, packetLen, totalLen) ==
    IF WideGT(totalLen, Len(data))
    THEN [PacketError("packet length exceeds available data")
            EXCEPT !.packetType = packetType, !.packetLen = packetLen,
                   !.totalLen = totalLen]
    ELSE LET bodyStart == totalLen[2] - packetLen[2]
             packetBody == SubSeq(data, bodyStart + 1, totalLen[2])
             e == IF packetType \in {6, 14} THEN parsePublicKeyPacketError(packetBody)
                  ELSE IF packetType = 13 /\ Len(packetBody) = 0
                       THEN "empty user ID packet"
                  ELSE ""
         IN  [err |-> e, consumed |-> totalLen[2], packetType |-> packetType,
              packetLen |-> packetLen, totalLen |-> totalLen, bodyStart |-> bodyStart]

\* parsePGPPacket, new-format length: the first length octet below 192 is the
\* length; 192..223 with a second octet the two-byte form; every other value,
\* 255 included, is taken as a partial body of 1 << (octet & 0x1f).
newFormatLength(data) ==
    LET lengthByte == data[2] IN
    IF lengthByte < 192
    THEN [err |-> "", packetLen |-> Wide(lengthByte), totalLen |-> Wide(lengthByte + 2)]
    ELSE IF lengthByte < 224
    THEN IF Len(data) < 3
         THEN [err |-> "insufficient data for two-byte length", packetLen |-> Wide(0),
               totalLen |-> Wide(0)]
         ELSE LET n == (lengthByte - 192) * 256 + data[3] + 192 IN
              [err |-> "", packetLen |-> Wide(n), totalLen |-> Wide(n + 3)]
    ELSE LET n == WideShl1(lengthByte % 32) IN
         [err |-> "", packetLen |-> n, totalLen |-> WideAdd(n, 2)]

\* parsePGPPacket, old-format length by the 2-bit length type.
oldFormatLength(data, lengthType) ==
    IF lengthType = 0
    THEN [err |-> "", packetLen |-> Wide(data[2]), totalLen |-> Wide(data[2] + 2)]
    ELSE IF lengthType = 1
    THEN IF Len(data) < 3
         THEN [err |-> "insufficient data for two-byte length", packetLen |-> Wide(0),
               totalLen |-> Wide(0)]
         ELSE LET n == Uint16BE(SubSeq(data, 2, 3)) IN
              [err |-> "", packetLen |-> n, totalLen |-> WideAdd(n, 3)]
    ELSE IF lengthType = 2
    THEN IF Len(data) < 5
         THEN [err |-> "insufficient data for four-byte length", packetLen |-> Wide(0),
               totalLen |-> Wide(0)]
         ELSE LET n == Uint32BE(SubSeq(data, 2, 5)) IN
              [err |-> "", packetLen |-> n, totalLen |-> WideAdd(n, 5)]
    ELSE [err |-> "", packetLen |-> Wide(Len(data) - 1), totalLen |-> Wide(Len(data))]

\* parsePGPPacket(data): the error, the int it returns (consumed) and its
\* locals packetType, packetLen, totalLen and bodyStart at the return.
parsePGPPacket(data) ==
    IF Len(data) < 1 THEN PacketError("insufficient data for packet header")
    ELSE LET header == data[1]
             newFormat == (header \div 64) % 2 = 1
             packetType == IF newFormat THEN header % 64 ELSE (header \div 4) % 16
             lengthType == header % 4
         IN  IF header < 128 THEN PacketError("invalid packet header")
             ELSE IF 1 >= Len(data)
             THEN [PacketError("insufficient data for packet length")
                     EXCEPT !.packetType = packetType]
             ELSE LET l == IF newFormat THEN newFormatLength(data)
                           ELSE oldFormatLength(data, lengthType)
                  IN  IF l.err # ""
                      THEN [PacketError(l.err) EXCEPT !.packetType = packetType]
                      ELSE framedPacket(data, packetType, l.packetLen, l.totalLen)

\* The stream handed to parsePGPPackets, the offset of its loop, the result of
\* the last parsePGPPacket and the offset it was called at.
NoPacketStream ==
    [op |-> "none", data |-> <<>>, offset |-> 0, at |-> 0, res |-> PacketError("")]

\* ------------------------------------------------------------------- state
VARIABLES
    ingester,          \* which binary runs: "rekor" or "ct"
    run,               \* number of process starts so far
    startIndexFlag,    \* -start_index
    remoteSize,        \* leaves the remote log holds (all shards)
    faults,            \* faults injected so far
    now,               \* clock reading, seconds
    exitCode,          \* -1 while the process runs, else its exit status
    mpc,               \* main task: "start", "resume", "lookup", "wait", "waitSink",
                       \* "returned"
    doneClosed,        \* the shutdown channel done is closed
    fetchDoneClosed,   \* the channel fetchDone is closed
    logInfo,           \* last log state fetched
    rlt,               \* RateLimitTracker
    currentIndex,      \* next global index to fetch
    fpc,               \* fetch task position
    chunkSize,         \* entries planned for the current chunk
    processedInChunk,  \* rows sent during the current chunk
    cur,               \* the BatchResult being processed
    iter,              \* loop variable i of the entry loop
    wk,                \* batch index -> "idle", "run", "fin", "late" (finished,
                       \* AddResult found the collector closed)
    ctxCancelled,      \* fetchCtx is cancelled
    obc,               \* OrderedBatchCollector of the current chunk
    logChan,           \* queue to the sink
    logChanClosed,
    spc,               \* sink task: "init" (not started), "run", "flush" (inserting
                       \* the batch a receive filled), "drain" (in the loop of
                       \* case <-done), "lastFlush" (inserting the batch after
                       \* that loop), "exited"
    batch,             \* rows the sink holds, not yet inserted
    stored,            \* rows in the store, in commit order
    cb,                \* CircuitBreaker
    \* history of the run, for stating the properties
    sent,              \* [row, index, checkpoint] of every row put on logChan
    obcEmitted,        \* batch indexes put on the collector's channel, in order
    obcArrived,        \* batch indexes in AddResult call order
    missed,            \* indices of failed sub-batches and of omitted entries
    handled,           \* entries parsed by the fetch loop while not shutting down
    baseLen,           \* Len(stored) when the run started
    resumedAt,         \* currentIndex after the resume lookup (-1: none yet)
    cbOp,              \* last call made on the breaker exercised alone
    streak,            \* recordFailure calls since the last recordSuccess
    rw,                \* a retry wrapper exercised alone: its call frame
    gh,                \* history of the rate governor: the last call made on it,
                       \* rate-limit events (chunkEvents: of the current chunk)
    closer,            \* the task "wg.Wait(); collector.Close()" of the current
                       \* chunk: "idle", "armed", "done"
    pp,                \* ProxyPool (NoPool: no proxy configured)
    pph,               \* history of the pool: last call, the pool before it, the
                       \* draws since the last refresh, refreshes so far
    pgp                \* parsePGPPackets exercised alone: the stream, the loop's
                       \* offset and the last parsePGPPacket result

vars == <<ingester, run, startIndexFlag, remoteSize, faults, now, exitCode, mpc,
          doneClosed, fetchDoneClosed, logInfo, rlt, currentIndex, fpc, chunkSize,
          processedInChunk, cur, iter, wk, ctxCancelled, obc, logChan,
          logChanClosed, spc, batch, stored, cb, sent, obcEmitted, obcArrived,
          missed, handled, baseLen, resumedAt, cbOp, streak, rw, gh, closer, pp, pph,
          pgp>>

envVars == <<ingester, run, startIndexFlag, remoteSize>>
poolVars == <<pp, pph, pgp>>
sinkVars == <<logChan, spc, batch, stored, cb>>
chunkVars == <<chunkSize, processedInChunk, cur, iter, wk, ctxCancelled, obc, obcEmitted, obcArrived>>
histVars == <<sent, missed, handled, baseLen, resumedAt>>

Alive == exitCode = -1
\* No retry wrapper is running; nothing has happened to the governor.
RWIdle == [fn |-> "none", pc |-> "idle", attempt |-> 0, rateLimitAttempts |-> 0,
           result |-> "none", calls |-> 0, limited |-> 0, transient |-> 0,
           halfOpenOps |-> 0, badRequests |-> 0]
NoGovHistory == [op |-> "none", events |-> 0, chunkEvents |-> 0, recoveries |-> 0, chunksThisTick |-> 0,
                 counted |-> 0, countedAtOp |-> 0, lastEvent |-> ZeroTime, lastRecovery |-> ZeroTime,
                 prevRecovery |-> ZeroTime, before |-> NewRateLimitTracker(1)]
NoPoolHistory == [op |-> "none", source |-> "none", before |-> NoPool, drawn |-> <<>>,
                  refreshes |-> 0,
                  mu |-> "free", refresher |-> "idle", client |-> "idle",
                  lenRead |-> 0, pending |-> <<>>]
NoResult == [BatchIndex |-> -1, StartIndex |-> 0, Entries |-> {}, Error |-> FALSE]
\* The inactive shards the log announces (one shard of one leaf).
InactiveShardSizes == <<1>>
Batches == 0..(MaxConc - 1)

\* Everything a process start sets up, the store and the environment aside.
StartProcess(conc, shards) ==
    /\ now = 0
    /\ exitCode = -1
    /\ mpc = "start"
    /\ doneClosed = FALSE
    /\ fetchDoneClosed = FALSE
    /\ logInfo = [TreeID |-> ActiveTreeID, TreeSize |-> remoteSize - SumSeq(shards),
                  InactiveShards |-> shards]
    /\ rlt = NewRateLimitTracker(conc)
    /\ currentIndex = 0
    /\ fpc = "init"
    /\ chunkSize = 0
    /\ processedInChunk = 0
    /\ cur = NoResult
    /\ iter = 0
    /\ wk = [b \in Batches |-> "idle"]
    /\ ctxCancelled = FALSE
    /\ obc = NewOrderedBatchCollector
    /\ logChan = <<>>
    /\ logChanClosed = FALSE
    /\ batch = <<>>
    /\ cb = NewCircuitBreaker
    /\ sent = <<>>
    /\ obcEmitted = <<>>
    /\ obcArrived = <<>>
    /\ missed = {}
    /\ handled = {}
    /\ resumedAt = -1
    /\ cbOp = "none"
    /\ streak = 0
    /\ rw = RWIdle
    /\ gh = NoGovHistory
    /\ closer = "idle"
    /\ pp = NoPool
    /\ pph = NoPoolHistory
    /\ pgp = NoPacketStream

Init ==
    /\ ingester \in {"rekor", "ct"}
    /\ run = 1
    /\ startIndexFlag \in {-1, 0}
    /\ remoteSize = MaxLog - 1
    /\ faults = 0
    /\ stored = <<>>
    /\ baseLen = 0
    /\ spc = "init"
    /\ StartProcess(MaxConc, IF ingester = "rekor" THEN InactiveShardSizes ELSE <<>>)

\* -------------------------------------------------------------------- sink
\* A plausible slip: a batch that cannot be inserted is dropped and the sink
\* carries on.
flushBatchDropping(rows, next) ==
    IF rows = <<>>
    THEN /\ batch' = <<>> /\ spc' = next /\ UNCHANGED <<stored, cb, exitCode>>
    ELSE \/ /\ canExecute(cb, now)
            /\ stored' = stored \o rows
            /\ cb' = recordSuccess(afterCanExecute(cb, now))
            /\ batch' = <<>> /\ spc' = next /\ UNCHANGED exitCode
         \/ /\ cb' = recordFailure(afterCanExecute(cb, now), now)
            /\ batch' = <<>> /\ spc' = next /\ UNCHANGED <<stored, exitCode>>

\* flushBatch with ingestBatchWithRetry: nothing to do on an empty batch; a
\* rejection by the breaker or an insert that fails on every attempt is
\* log.Fatalf (exit status 1); a success commits the rows and empties the batch.
flushBatch(rows, next) ==
    IF rows = <<>>
    THEN /\ batch' = <<>> /\ spc' = next /\ UNCHANGED <<stored, cb, exitCode>>
    ELSE IF ~canExecute(cb, now)
    THEN /\ cb' = afterCanExecute(cb, now)
         /\ batch' = rows /\ exitCode' = 1 /\ UNCHANGED <<stored, spc>>
    ELSE \/ /\ stored' = stored \o rows
            /\ cb' = recordSuccess(afterCanExecute(cb, now))
            /\ batch' = <<>> /\ spc' = next /\ UNCHANGED exitCode
         \/ /\ cb' = recordFailure(afterCanExecute(cb, now), now)
            /\ batch' = rows /\ exitCode' = 1 /\ UNCHANGED <<stored, spc>>

notSink == <<envVars, poolVars, faults, now, mpc, doneClosed, fetchDoneClosed, logInfo, rlt,
             currentIndex, fpc, chunkVars, logChanClosed, histVars, closer, cbOp, streak, rw, gh>>

\* case details, ok := <-logChan (a row): the row leaves the queue and is
\* appended; with a full batch the sink goes into flushBatch.
SinkReceive ==
    /\ Alive /\ spc = "run" /\ logChan # <<>>
    /\ logChan' = Tail(logChan)
    /\ batch' = Append(batch, Head(logChan))
    /\ spc' = IF Len(batch') >= DbBatchSize THEN "flush" ELSE "run"
    /\ UNCHANGED <<stored, cb, exitCode, notSink>>

\* flushBatch of the full batch: ingestBatchWithRetry with its attempts and
\* sleeps has come to its end. The slot the receive freed in the queue can be
\* filled by the fetch task before this step.
SinkFlushFullBatch ==
    /\ Alive /\ spc = "flush"
    /\ flushBatch(batch, "run")
    /\ UNCHANGED <<logChan, notSink>>

\* case details, ok := <-logChan (closed and empty): flush and return.
SinkChannelClosed ==
    /\ Alive /\ spc = "run" /\ logChan = <<>> /\ logChanClosed
    /\ flushBatch(batch, "exited")
    /\ UNCHANGED <<logChan, notSink>>

\* case <-ticker.C
SinkTicker ==
    /\ Alive /\ spc = "run" /\ batch # <<>>
    /\ flushBatch(batch, "run")
    /\ UNCHANGED <<logChan, notSink>>

\* case <-done of the sink's select: the drain loop is entered.
SinkShutdown ==
    /\ Alive /\ spc = "run" /\ doneClosed
    /\ spc' = "drain"
    /\ UNCHANGED <<logChan, batch, stored, cb, exitCode, notSink>>

\* A plausible slip: the drain on shutdown has no bound.
SinkDrainReceiveUnbounded ==
    /\ Alive /\ spc = "drain" /\ logChan # <<>>
    /\ batch' = Append(batch, Head(logChan))
    /\ logChan' = Tail(logChan)
    /\ UNCHANGED <<spc, stored, cb, exitCode, notSink>>

\* One turn of "for len(batch) < dbBatchSize*2" that receives a row: the row
\* is appended. The fetch task can send between two turns.
SinkDrainReceive ==
    /\ Alive /\ spc = "drain" /\ logChan # <<>>
    /\ Len(batch) < 2 * DbBatchSize
    /\ batch' = Append(batch, Head(logChan))
    /\ logChan' = Tail(logChan)
    /\ UNCHANGED <<spc, stored, cb, exitCode, notSink>>

\* The drain loop ends: the loop condition finds 2 x dbBatchSize rows in the
\* batch, or the select finds the queue empty (default) or closed and empty
\* (!ok). The sink goes into its last flushBatch.
SinkDrainEnds ==
    /\ Alive /\ spc = "drain"
    /\ Len(batch) >= 2 * DbBatchSize \/ logChan = <<>>
    /\ spc' = "lastFlush"
    /\ UNCHANGED <<logChan, batch, stored, cb, exitCode, notSink>>

\* The flushBatch that ends the drain, and return: ingestBatchWithRetry with
\* its attempts and sleeps has come to its end. The fetch task can have sent
\* rows since the loop ended.
SinkDrainFlush ==
    /\ Alive /\ spc = "lastFlush"
    /\ flushBatch(batch, "exited")
    /\ UNCHANGED <<logChan, notSink>>

\* A plausible slip: a resume lookup that fails on every attempt is logged and
\* the run starts from index 0 instead of ending the process.
ResumeToleratingFailure ==
    /\ Alive
    /\ \/ /\ mpc = "lookup"
          /\ LET start == IF ingester = "rekor"
                          THEN convertTreeIndexToGlobalIndex(
                                   getLatestLogIndex(stored, logInfo.TreeID), logInfo)
                          ELSE ctGetLatestLogIndex(stored, CTLogID)
             IN  /\ currentIndex' = start /\ resumedAt' = start
          /\ cb' = recordSuccess(cb)
          /\ mpc' = "wait" /\ fpc' = "top" /\ UNCHANGED exitCode
       \/ /\ mpc = "lookup" /\ cb' = recordFailure(cb, now)
          /\ currentIndex' = 0 /\ resumedAt' = 0
          /\ mpc' = "wait" /\ fpc' = "top" /\ UNCHANGED exitCode
       \/ /\ mpc = "resume" /\ startIndexFlag # -1
          /\ currentIndex' = startIndexFlag /\ resumedAt' = startIndexFlag
          /\ mpc' = "wait" /\ fpc' = "top" /\ UNCHANGED <<cb, exitCode>>
    /\ UNCHANGED <<envVars, poolVars, faults, now, doneClosed, fetchDoneClosed, logInfo, rlt,
                   chunkVars, logChan, logChanClosed, spc, batch, stored, sent, missed,
                   handled, baseLen, closer, cbOp, streak, rw, gh>>

\* -------------------------------------------------------------- main task
\* Start-up: the log state is fetched before anything is started, by
\* fetchLogInfoWithRetry with the rate governor (Rekor) or by fetchSTH (CT).
\* The first request succeeds; or (Rekor) a request is answered 429, which is
\* reported to the governor, and a later one succeeds; or the call fails, which
\* is log.Fatalf. After it the sink task is started.
MainFetchLogInfo ==
    /\ Alive /\ mpc = "start"
    /\ \/ /\ mpc' = "resume" /\ spc' = "run"
          /\ UNCHANGED <<faults, rlt, gh, exitCode>>
       \/ /\ ingester = "rekor"
          /\ faults < MaxFaults
          /\ faults' = faults + 1
          /\ rlt' = OnRateLimit(rlt, now)
          /\ gh' = [gh EXCEPT !.op = "ratelimit"]
          /\ mpc' = "resume" /\ spc' = "run"
          /\ UNCHANGED exitCode
       \/ /\ exitCode' = 1
          /\ UNCHANGED <<faults, rlt, gh, mpc, spc>>
    /\ UNCHANGED <<envVars, poolVars, now, doneClosed, fetchDoneClosed, logInfo, currentIndex,
                   fpc, chunkVars, logChan, logChanClosed, batch, stored, cb, histVars,
                   closer, cbOp, streak, rw>>

\* The resume logic: with -start_index=-1 the result of the lookup
\* getLatestLogIndexWithRetry (fatal when it fails after its retries), else the
\* flag; then the fetch task is started.
Resume ==
    /\ Alive
    /\ \/ /\ mpc = "lookup"
          /\ LET start == IF ingester = "rekor"
                          THEN convertTreeIndexToGlobalIndex(
                                   getLatestLogIndex(stored, logInfo.TreeID), logInfo)
                          ELSE ctGetLatestLogIndex(stored, CTLogID)
             IN  /\ currentIndex' = start
                 /\ resumedAt' = start
          /\ cb' = recordSuccess(cb)
          /\ mpc' = "wait" /\ fpc' = "top"
          /\ UNCHANGED exitCode
       \/ /\ mpc = "lookup"
          /\ cb' = recordFailure(cb, now)
          /\ exitCode' = 1
          /\ UNCHANGED <<currentIndex, resumedAt, mpc, fpc>>
       \/ /\ mpc = "resume"
          /\ startIndexFlag # -1
          /\ currentIndex' = startIndexFlag
          /\ resumedAt' = startIndexFlag
          /\ mpc' = "wait" /\ fpc' = "top"
          /\ UNCHANGED <<cb, exitCode>>
    /\ UNCHANGED <<envVars, poolVars, faults, now, doneClosed, fetchDoneClosed, logInfo, rlt,
                   chunkVars, logChan, logChanClosed, spc, batch, stored, sent,
                   missed, handled, baseLen, closer, cbOp, streak, rw, gh>>

\* A plausible slip: the fetch task is started before the lookup.
ResumeLookupAfterFetchStart ==
    /\ Alive /\ mpc = "resume"
    /\ startIndexFlag = -1
    /\ canExecute(cb, now)
    /\ cb' = afterCanExecute(cb, now)
    /\ mpc' = "lookup"
    /\ fpc' = "top"
    /\ UNCHANGED <<envVars, poolVars, faults, now, exitCode, doneClosed, fetchDoneClosed, logInfo, rlt,
                   currentIndex, chunkVars, logChan, logChanClosed, spc, batch, stored,
                   histVars, closer, cbOp, streak, rw, gh>>

\* getLatestLogIndexWithRetry is entered, with the sink task already started:
\* canExecute on the breaker, then the lookup with its retries.
ResumeLookup ==
    /\ Alive /\ mpc = "resume"
    /\ startIndexFlag = -1
    /\ canExecute(cb, now)
    /\ cb' = afterCanExecute(cb, now)
    /\ mpc' = "lookup"
    /\ UNCHANGED <<envVars, poolVars, faults, now, exitCode, doneClosed, fetchDoneClosed, logInfo, rlt,
                   currentIndex, fpc, chunkVars, logChan, logChanClosed, spc, batch, stored,
                   histVars, closer, cbOp, streak, rw, gh>>

\* close(done) by the main task: closing a closed channel panics (exit status 2).
MainCloseDone ==
    IF doneClosed
    THEN exitCode' = 2 /\ UNCHANGED <<doneClosed, mpc>>
    ELSE doneClosed' = TRUE /\ mpc' = "waitSink" /\ UNCHANGED exitCode

notMain == <<envVars, poolVars, faults, now, fetchDoneClosed, logInfo, rlt, currentIndex, fpc,
             chunkVars, logChanClosed, sinkVars, histVars, closer, cbOp, streak, rw, gh>>

\* case <-sigChan: SIGINT or SIGTERM arrives.
MainSignal ==
    /\ Alive /\ mpc = "wait"
    /\ MainCloseDone
    /\ UNCHANGED notMain

\* case <-fetchDone
MainFetchDone ==
    /\ Alive /\ mpc = "wait" /\ fetchDoneClosed
    /\ MainCloseDone
    /\ UNCHANGED notMain

\* A plausible slip: the wait group covers the fetch task as well.
MainReturnAfterFetch ==
    /\ Alive /\ mpc = "waitSink" /\ spc = "exited" /\ fpc = "exited"
    /\ mpc' = "returned" /\ exitCode' = 0
    /\ UNCHANGED <<doneClosed, notMain>>

\* wg.Wait() returns once the sink has returned; main returns, exit status 0.
MainReturn ==
    /\ Alive /\ mpc = "waitSink" /\ spc = "exited"
    /\ mpc' = "returned" /\ exitCode' = 0
    /\ UNCHANGED <<doneClosed, notMain>>

\* ------------------------------------------------------- Rekor fetch task
IsRekor == ingester = "rekor"

\* The fetch task returns: the deferred fetchCancel, close(fetchDone) and
\* close(logChan) run.
FetchReturn ==
    /\ fpc' = "exited"
    /\ ctxCancelled' = TRUE
    /\ fetchDoneClosed' = TRUE
    /\ logChanClosed' = TRUE

\* fetchCancel(); collector.Close(); return
FetchStop ==
    /\ FetchReturn
    /\ obc' = CloseCollector(obc)

\* Top of the loop: case <-done.
RekorShutdownAtTop ==
    /\ Alive /\ IsRekor /\ fpc = "top" /\ doneClosed
    /\ FetchReturn
    /\ UNCHANGED <<envVars, poolVars, faults, now, exitCode, mpc, doneClosed, logInfo, rlt,
                   currentIndex, chunkSize, processedInChunk, cur, iter, wk, obc,
                   obcEmitted, obcArrived, sinkVars, histVars, closer, cbOp, streak, rw, gh>>

\* currentIndex >= totalLogSize: the loop waits for pollingInterval or done.
RekorEnterPolling ==
    /\ Alive /\ IsRekor /\ fpc = "top" /\ ~doneClosed
    /\ currentIndex >= calculateTotalLogSize(logInfo)
    /\ fpc' = "poll"
    /\ rw' = RWIdle
    /\ UNCHANGED <<envVars, poolVars, faults, now, exitCode, mpc, doneClosed, fetchDoneClosed,
                   logInfo, rlt, currentIndex, chunkVars, logChanClosed, sinkVars,
                   histVars, closer, cbOp, streak, gh>>

\* The frame of a finished call of fetchLogInfoWithRetry.
InfoFrame(result, limited, transient) ==
    [RWIdle EXCEPT !.fn = "info", !.result = result, !.limited = limited,
                   !.transient = transient,
                   !.calls = limited + transient + (IF result = "ok" THEN 1 ELSE 0),
                   !.rateLimitAttempts = limited]

\* The log state the refresh gets: the log has not shrunk.
RekorRefreshed ==
    /\ remoteSize' \in remoteSize..MaxLog
    /\ logInfo' = [logInfo EXCEPT
                      !.TreeSize = remoteSize' - SumSeq(logInfo.InactiveShards)]

\* A plausible slip: the result of the failed call replaces the log state.
RekorRefreshFailsLosingState ==
    /\ faults < MaxFaults
    /\ faults' = faults + 1
    /\ rw' = InfoFrame("failed", 0, maxRetries + 1)
    /\ logInfo' = [logInfo EXCEPT !.TreeSize = 0]
    /\ UNCHANGED <<remoteSize, rlt, gh>>

\* fetchLogInfoWithRetry fails on every attempt: the error is logged and the
\* old log state is kept.
RekorRefreshFails ==
    /\ faults < MaxFaults
    /\ faults' = faults + 1
    /\ rw' = InfoFrame("failed", 0, maxRetries + 1)
    /\ UNCHANGED <<logInfo, remoteSize, rlt, gh>>

\* case <-time.After(pollingInterval): refresh the log state with
\* fetchLogInfoWithRetry and continue: the first request succeeds; or it is
\* answered 429 (reported to the governor) and the next succeeds; or every
\* attempt fails and the old state is kept.
RekorPoll ==
    /\ Alive /\ IsRekor /\ fpc = "poll"
    /\ \/ /\ RekorRefreshed
          /\ rw' = InfoFrame("ok", 0, 0)
          /\ UNCHANGED <<faults, rlt, gh>>
       \/ /\ faults < MaxFaults
          /\ faults' = faults + 1
          /\ RekorRefreshed
          /\ rlt' = OnRateLimit(rlt, now)
          /\ gh' = [gh EXCEPT !.op = "ratelimit"]
          /\ rw' = InfoFrame("ok", 1, 0)
       \/ RekorRefreshFails
    /\ fpc' = "top"
    /\ UNCHANGED <<poolVars, ingester, run, startIndexFlag, now, exitCode, mpc, doneClosed,
                   fetchDoneClosed, currentIndex, chunkVars, logChanClosed, sinkVars,
                   histVars, closer, cbOp, streak>>

\* case <-done while polling.
RekorShutdownWhilePolling ==
    /\ Alive /\ IsRekor /\ fpc = "poll" /\ doneClosed
    /\ FetchReturn
    /\ UNCHANGED <<envVars, poolVars, faults, now, exitCode, mpc, doneClosed, logInfo, rlt,
                   currentIndex, chunkSize, processedInChunk, cur, iter, wk, obc,
                   obcEmitted, obcArrived, sinkVars, histVars, closer, cbOp, streak, rw, gh>>

\* The planning loop of fetchLogEntriesConcurrent from currentIndex on: one
\* sub-batch per pass, with its batch index, start index and log indexes.
RECURSIVE plannedFrom(_, _, _, _, _)
plannedFrom(startIndex, totalEntries, batchSize, index, batchIndex) ==
    IF ~(index < startIndex + totalEntries)
    THEN <<>>
    ELSE LET remainingEntries == startIndex + totalEntries - index
             currentBatchSize == IF remainingEntries < batchSize
                                 THEN remainingEntries ELSE batchSize
         IN  IF currentBatchSize <= 0
             THEN <<>>
             ELSE <<[BatchIndex |-> batchIndex, StartIndex |-> index,
                     LogIndexes |-> [i \in 1..currentBatchSize |-> index + i - 1]]>>
                  \o plannedFrom(startIndex, totalEntries, batchSize,
                                 index + currentBatchSize, batchIndex + 1)

plannedBatches(startIndex, totalEntries, batchSize) ==
    plannedFrom(startIndex, totalEntries, batchSize, startIndex, 0)

NumBatches(size) == (size + BatchSizeFlag - 1) \div BatchSizeFlag

\* Plan a chunk and dispatch its sub-batches (fetchLogEntriesConcurrent): the
\* semaphore has as many slots as the chunk has sub-batches at most.
RekorDispatch ==
    /\ Alive /\ IsRekor /\ fpc = "top" /\ ~doneClosed
    /\ LET totalLogSize == calculateTotalLogSize(logInfo)
           remainingEntries == totalLogSize - currentIndex
           planned == rlt.currentConcurrency * BatchSizeFlag
           size == IF remainingEntries < planned THEN remainingEntries ELSE planned
       IN  /\ remainingEntries > 0
           /\ chunkSize' = size
           /\ wk' = [b \in Batches |-> IF b < NumBatches(size) THEN "run" ELSE "idle"]
    /\ obc' = NewOrderedBatchCollector
    /\ obcEmitted' = <<>>
    /\ obcArrived' = <<>>
    /\ ctxCancelled' = FALSE
    /\ processedInChunk' = 0
    /\ cur' = NoResult
    /\ iter' = 0
    /\ fpc' = "collect"
    /\ gh' = [NoGovHistory EXCEPT !.op = "dispatch"]
    /\ closer' = "armed"
    /\ rw' = RWIdle
    /\ UNCHANGED <<envVars, poolVars, faults, now, exitCode, mpc, doneClosed, fetchDoneClosed,
                   logInfo, rlt, currentIndex, logChanClosed, sinkVars, histVars, cbOp, streak>>

\* The indexes of sub-batch b of the current chunk.
BatchStart(b) == currentIndex + b * BatchSizeFlag
\* A plausible slip: the last sub-batch is not cut at the end of the chunk.
BatchIndexesUnclipped(b) == BatchStart(b)..(BatchStart(b) + BatchSizeFlag - 1)
BatchIndexes(b) ==
    {g \in BatchStart(b)..(BatchStart(b) + BatchSizeFlag - 1) : g < currentIndex + chunkSize}

notWorker == <<envVars, poolVars, now, exitCode, mpc, doneClosed, fetchDoneClosed, logInfo,
               currentIndex, fpc, chunkSize, processedInChunk, cur, iter,
               ctxCancelled, logChanClosed, sinkVars, sent, handled, baseLen,
               resumedAt, closer, cbOp, streak, rw>>

\* A request of the worker is answered 429 before its last attempt: the retry
\* loop reports it to the governor and tries again. The loop does not look at
\* the context, so this happens after fetchCancel as well.
WorkerRateLimited(b) ==
    /\ Alive /\ IsRekor /\ wk[b] = "run"
    /\ faults < MaxFaults
    /\ faults' = faults + 1
    /\ rlt' = OnRateLimit(rlt, now)
    /\ gh' = [gh EXCEPT !.op = "ratelimit", !.chunkEvents = @ + 1]
    /\ UNCHANGED <<wk, obc, obcEmitted, obcArrived, missed, notWorker>>

\* fetchBatchConcurrent sees ctx.Done(), at its start or when its fetch has
\* returned, and returns without a result.
WorkerCancelled(b) ==
    /\ Alive /\ IsRekor /\ wk[b] = "run" /\ ctxCancelled
    /\ wk' = [wk EXCEPT ![b] = "fin"]
    /\ UNCHANGED <<faults, rlt, obc, obcEmitted, obcArrived, missed, gh, notWorker>>

WorkerAdd(b, result) ==
    /\ wk' = [wk EXCEPT ![b] = IF obc.closed THEN "late" ELSE "fin"]
    /\ obc' = AddResult(obc, result)
    /\ obcArrived' = IF obc.closed THEN obcArrived ELSE Append(obcArrived, b)
    /\ obcEmitted' = obcEmitted \o
           [k \in 1..(Len(obc'.resultChan) - Len(obc.resultChan)) |->
               obc'.resultChan[Len(obc.resultChan) + k].BatchIndex]

\* The worker's fetch fails on every attempt: a result carrying the error.
WorkerFails(b) ==
    /\ Alive /\ IsRekor /\ wk[b] = "run" /\ ~ctxCancelled
    /\ faults < MaxFaults
    /\ faults' = faults + 1
    /\ WorkerAdd(b, [BatchIndex |-> b, StartIndex |-> BatchStart(b),
                     Entries |-> {}, Error |-> TRUE])
    /\ missed' = missed \cup BatchIndexes(b)
    /\ UNCHANGED <<rlt, gh, notWorker>>

\* The worker's fetch succeeds: the response holds the requested entries, some
\* of them omitted or damaged (each costs one fault).
WorkerFetches(b) ==
    /\ Alive /\ IsRekor /\ wk[b] = "run" /\ ~ctxCancelled
    /\ \E F \in SUBSET BatchIndexes(b) :
          /\ Cardinality(F) <= MaxFaults - faults
          /\ \E kind \in [F -> EntryFaults \cup {"omit"}] :
                LET omitted == {g \in F : kind[g] = "omit"}
                    entries == {IF g \in F
                                THEN FaultyEntry(LogEntryAt(g, logInfo.InactiveShards), kind[g])
                                ELSE LogEntryAt(g, logInfo.InactiveShards)
                                : g \in BatchIndexes(b) \ omitted}
                IN  /\ WorkerAdd(b, [BatchIndex |-> b, StartIndex |-> BatchStart(b),
                                     Entries |-> entries, Error |-> FALSE])
                    /\ missed' = missed \cup omitted
                    /\ faults' = faults + Cardinality(F)
    /\ UNCHANGED <<rlt, gh, notWorker>>

\* The worker passed its second ctx check before the cancellation and calls
\* AddResult after it.
WorkerAddsLate(b) ==
    /\ Alive /\ IsRekor /\ wk[b] = "run" /\ ctxCancelled
    /\ WorkerAdd(b, [BatchIndex |-> b, StartIndex |-> BatchStart(b),
                     Entries |-> {LogEntryAt(g, logInfo.InactiveShards) : g \in BatchIndexes(b)},
                     Error |-> FALSE])
    /\ UNCHANGED <<faults, rlt, missed, gh, notWorker>>

\* go func() { wg.Wait(); collector.Close() }()
CollectorClosedAfterWorkers ==
    /\ Alive /\ IsRekor /\ closer = "armed"
    /\ \A b \in Batches : wk[b] # "run"
    /\ obc' = CloseCollector(obc)
    /\ closer' = "done"
    /\ UNCHANGED <<envVars, poolVars, faults, now, exitCode, mpc, doneClosed, fetchDoneClosed,
                   logInfo, rlt, currentIndex, fpc, chunkSize, processedInChunk, cur,
                   iter, wk, ctxCancelled, obcEmitted, obcArrived, logChanClosed,
                   sinkVars, histVars, cbOp, streak, rw, gh>>

\* ------------------------------------------- Rekor fetch task: the results
notFetch == <<envVars, poolVars, faults, now, mpc, logInfo, rlt, currentIndex, chunkSize, wk,
              obcEmitted, obcArrived, spc, batch, stored, cb, missed, baseLen,
              resumedAt, closer, cbOp, streak, rw, gh>>

\* for batchResult := range collector.GetResults(): the next result, done first.
RekorTakeResult ==
    /\ Alive /\ IsRekor /\ fpc = "collect" /\ obc.resultChan # <<>>
    /\ LET r == Head(obc.resultChan)
           rest == [obc EXCEPT !.resultChan = Tail(@)]
       IN  IF doneClosed
           THEN /\ FetchReturn
                /\ obc' = CloseCollector(rest)
                /\ UNCHANGED <<cur, iter>>
           ELSE /\ obc' = rest
                /\ IF r.Error
                   THEN UNCHANGED <<cur, iter, fpc>>
                   ELSE cur' = r /\ iter' = r.StartIndex /\ fpc' = "batch"
                /\ UNCHANGED <<ctxCancelled, fetchDoneClosed, logChanClosed>>
    /\ UNCHANGED <<exitCode, doneClosed, processedInChunk, logChan, sent, handled,
                   notFetch>>

EntriesAt(i) == {e \in cur.Entries : e.LogIndex = i}
InEntryLoop == fpc = "batch" /\ iter < cur.StartIndex + Cardinality(cur.Entries)
CurrentEntry == CHOOSE e \in cur.Entries : e.LogIndex = iter
Parsed == parseRekorEntry(CurrentEntry, logInfo.TreeID)
SentRecord(e, details) == [row |-> details, index |-> iter, checkpoint |-> e.Checkpoint]

\* The entry loop has covered StartIndex .. StartIndex+len(Entries)-1.
RekorBatchDone ==
    /\ Alive /\ IsRekor /\ fpc = "batch" /\ ~InEntryLoop
    /\ fpc' = "collect" /\ cur' = NoResult /\ iter' = 0
    /\ UNCHANGED <<exitCode, doneClosed, fetchDoneClosed, processedInChunk,
                   ctxCancelled, obc, logChan, logChanClosed, sent, handled, notFetch>>

\* No entry of the result has LogIndex i: warning, continue.
RekorEntryNotFound ==
    /\ Alive /\ IsRekor /\ InEntryLoop /\ EntriesAt(iter) = {}
    /\ iter' = iter + 1
    /\ UNCHANGED <<exitCode, doneClosed, fetchDoneClosed, fpc, processedInChunk, cur,
                   ctxCancelled, obc, logChan, logChanClosed, sent, handled, notFetch>>

\* parseRekorEntry ends the process: the entry has no inclusion proof.
RekorEntryFatal ==
    /\ Alive /\ IsRekor /\ InEntryLoop /\ EntriesAt(iter) # {}
    /\ Parsed.status = "fatal"
    /\ exitCode' = 1
    /\ UNCHANGED <<doneClosed, fetchDoneClosed, fpc, processedInChunk, cur, iter,
                   ctxCancelled, obc, logChan, logChanClosed, sent, handled, notFetch>>

\* The error text holds "Checkpoint tree ID validation failed": fetchCancel,
\* collector.Close, close(done), return. Closing done when the main task has
\* closed it panics.
RekorEntryCheckpointFailure ==
    /\ Alive /\ IsRekor /\ InEntryLoop /\ EntriesAt(iter) # {}
    /\ Parsed.status \in {"checkpoint", "error"}
    /\ ErrorContains(Parsed.err, CheckpointPhrase)
    /\ IF doneClosed
       THEN /\ exitCode' = 2
            /\ obc' = CloseCollector(obc)
            /\ ctxCancelled' = TRUE
            /\ UNCHANGED <<doneClosed, fetchDoneClosed, fpc, logChanClosed>>
       ELSE /\ doneClosed' = TRUE
            /\ FetchStop
            /\ UNCHANGED exitCode
    /\ handled' = handled \cup {CurrentEntry}
    /\ UNCHANGED <<processedInChunk, cur, iter, logChan, sent, notFetch>>

\* Any other parse error: "Skipping.", continue.
RekorEntrySkipped ==
    /\ Alive /\ IsRekor /\ InEntryLoop /\ EntriesAt(iter) # {}
    /\ Parsed.status \in {"checkpoint", "error"}
    /\ ~ErrorContains(Parsed.err, CheckpointPhrase)
    /\ iter' = iter + 1
    /\ handled' = handled \cup {CurrentEntry}
    /\ UNCHANGED <<exitCode, doneClosed, fetchDoneClosed, fpc, processedInChunk, cur,
                   ctxCancelled, obc, logChan, logChanClosed, sent, notFetch>>

SendRow ==
    /\ Len(logChan) < LogChannelBuffer
    /\ logChan' = Append(logChan, Parsed.details)
    /\ sent' = Append(sent, SentRecord(CurrentEntry, Parsed.details))
    /\ handled' = handled \cup {CurrentEntry}
    /\ processedInChunk' = processedInChunk + 1
    /\ iter' = iter + 1
    /\ fpc' = "batch"

\* case logChan <- details
RekorEntrySent ==
    /\ Alive /\ IsRekor /\ InEntryLoop /\ EntriesAt(iter) # {}
    /\ Parsed.status = "ok"
    /\ SendRow
    /\ UNCHANGED <<exitCode, doneClosed, fetchDoneClosed, cur, ctxCancelled, obc,
                   logChanClosed, notFetch>>

\* case <-done in the send select.
RekorShutdownAtSend ==
    /\ Alive /\ IsRekor /\ InEntryLoop /\ EntriesAt(iter) # {}
    /\ Parsed.status = "ok"
    /\ doneClosed
    /\ FetchStop
    /\ UNCHANGED <<exitCode, doneClosed, processedInChunk, cur, iter, logChan, sent,
                   handled, notFetch>>

\* default: the queue is full and done is open: the loop commits to a blocking
\* send.
RekorSendBlocks ==
    /\ Alive /\ IsRekor /\ InEntryLoop /\ EntriesAt(iter) # {}
    /\ Parsed.status = "ok"
    /\ ~doneClosed
    /\ Len(logChan) >= LogChannelBuffer
    /\ fpc' = "blocked"
    /\ UNCHANGED <<exitCode, doneClosed, fetchDoneClosed, processedInChunk, cur, iter,
                   ctxCancelled, obc, logChan, logChanClosed, sent, handled, notFetch>>

\* The blocking send completes.
RekorBlockedSendCompletes ==
    /\ Alive /\ IsRekor /\ fpc = "blocked"
    /\ SendRow
    /\ UNCHANGED <<exitCode, doneClosed, fetchDoneClosed, cur, ctxCancelled, obc,
                   logChanClosed, notFetch>>

\* A plausible slip: the chunk ends as soon as the result channel is empty.
RekorChunkDoneOnEmpty ==
    /\ Alive /\ IsRekor /\ fpc = "collect"
    /\ obc.resultChan = <<>>
    /\ currentIndex' = currentIndex + processedInChunk
    /\ rlt' = IF processedInChunk > 0 THEN OnChunkSuccess(rlt, now) ELSE rlt
    /\ ctxCancelled' = TRUE
    /\ fpc' = "top"
    /\ gh' = [gh EXCEPT !.op = "chunk"]
    /\ obc' = CloseCollector(obc)
    /\ UNCHANGED <<envVars, poolVars, faults, now, exitCode, mpc, doneClosed, fetchDoneClosed,
                   logInfo, chunkSize, processedInChunk, cur, iter, wk,
                   obcEmitted, obcArrived, logChanClosed, sinkVars, histVars, closer, cbOp, streak, rw>>

\* The result channel is closed and drained: fetchCancel, collector.Close,
\* currentIndex += processedInChunk, OnChunkSuccess when a row was sent.
RekorChunkDone ==
    /\ Alive /\ IsRekor /\ fpc = "collect"
    /\ obc.resultChan = <<>> /\ obc.closed
    /\ currentIndex' = currentIndex + processedInChunk
    /\ rlt' = IF processedInChunk > 0 THEN OnChunkSuccess(rlt, now) ELSE rlt
    /\ ctxCancelled' = TRUE
    /\ fpc' = "top"
    /\ gh' = [gh EXCEPT !.op = "chunk"]
    /\ obc' = CloseCollector(obc)
    /\ UNCHANGED <<envVars, poolVars, faults, now, exitCode, mpc, doneClosed, fetchDoneClosed,
                   logInfo, chunkSize, processedInChunk, cur, iter, wk,
                   obcEmitted, obcArrived, logChanClosed, sinkVars, histVars, closer, cbOp, streak, rw>>

\* ------------------------------------------------------------ environment
\* The operator starts the process again, with -start_index=-1, after it ended;
\* the store keeps its rows.
Restart ==
    /\ ~Alive /\ run < MaxRuns
    /\ run' = run + 1
    /\ startIndexFlag' = -1
    /\ baseLen' = Len(stored)
    /\ now' = 0
    /\ exitCode' = -1
    /\ mpc' = "start"
    /\ doneClosed' = FALSE
    /\ fetchDoneClosed' = FALSE
    /\ remoteSize' \in remoteSize..MaxLog
    /\ logInfo' = [logInfo EXCEPT !.TreeSize = remoteSize' - SumSeq(logInfo.InactiveShards)]
    /\ rlt' = NewRateLimitTracker(rlt.originalConcurrency)
    /\ currentIndex' = 0
    /\ fpc' = "init"
    /\ chunkSize' = 0
    /\ processedInChunk' = 0
    /\ cur' = NoResult
    /\ iter' = 0
    /\ wk' = [b \in Batches |-> "idle"]
    /\ ctxCancelled' = FALSE
    /\ obc' = NewOrderedBatchCollector
    /\ logChan' = <<>>
    /\ logChanClosed' = FALSE
    /\ spc' = "init"
    /\ batch' = <<>>
    /\ cb' = NewCircuitBreaker
    /\ sent' = <<>>
    /\ obcEmitted' = <<>>
    /\ obcArrived' = <<>>
    /\ missed' = {}
    /\ handled' = {}
    /\ resumedAt' = -1
    /\ gh' = NoGovHistory
    /\ closer' = "idle"
    /\ rw' = RWIdle
    /\ UNCHANGED poolVars
    /\ UNCHANGED <<ingester, faults, stored, cbOp, streak>>

\* ----------------------------------------------------------- CT ingester
IsCT == ingester = "ct"

notCT == <<ingester, run, startIndexFlag, now, mpc, logInfo, rlt, chunkSize, wk, obc,
           obcEmitted, obcArrived, spc, batch, stored, cb, missed, baseLen, resumedAt,
           closer, cbOp, streak, gh, pp, pph, pgp>>

\* Top of the loop: case <-done.
CTShutdownAtTop ==
    /\ Alive /\ IsCT /\ fpc = "top" /\ doneClosed
    /\ FetchReturn
    /\ UNCHANGED <<remoteSize, faults, exitCode, doneClosed, currentIndex,
                   processedInChunk, cur, iter, logChan, sent, handled, rw, notCT>>

\* The answers by status class: 400 with either reason phrase, and 500.
BadRequests == {BadRequest, BadRequestOtherReason}
ServerErrors == {ServerError, ServerErrorRelaying400, ServerErrorNamingEndOfLog}

\* The frame of a finished call, kept for the history of the call.
CTFrame(answers) ==
    LET result == fetchEntriesWithRetry(answers)
        seen == SubSeq(answers, 1, result.attempts) IN
    [RWIdle EXCEPT !.fn = "get-entries",
                   !.result = IF result.err # <<>> THEN result.err[1]
                             ELSE IF result.resp = "empty" THEN "empty" ELSE "ok",
                   !.calls = result.attempts,
                   !.transient = Cardinality({i \in 1..Len(seen) : seen[i] \in ServerErrors}),
                   !.badRequests = Cardinality({i \in 1..Len(seen) : seen[i] \in BadRequests})]

\* The call of fetchEntriesWithRetry at the top of the loop. The log holds
\* size leaves; below size it answers 200 with leaves, at or beyond size with
\* 400 or with an empty list; any attempt may fail otherwise (one fault for the
\* call). rw keeps the frame of the call: attempts made, errors and 400s seen.
CTCall(size, answers) ==
    /\ size \in remoteSize..MaxLog
    /\ answers \in GetEntriesRuns
    /\ \A i \in 1..Len(answers) :
          /\ answers[i] = OkEntries => currentIndex < size
          /\ answers[i] \in BadRequests \cup {OkEmpty} => currentIndex >= size
    /\ remoteSize' = size
    /\ rw' = CTFrame(answers)

CallFaults(answers) ==
    IF \E i \in 1..Len(answers) : answers[i] \in ServerErrors THEN 1 ELSE 0

\* fetchEntriesWithRetry returns entries: the log answers with the leaves from
\* currentIndex on, at most the batch size and at most what it holds.
CTFetchEntries ==
    /\ Alive /\ IsCT /\ fpc = "top" /\ ~doneClosed
    /\ \E size \in remoteSize..MaxLog, answers \in GetEntriesRuns :
          /\ CTCall(size, answers)
          /\ afterFetchEntries(fetchEntriesWithRetry(answers)) = "process"
          /\ \E n \in 1..Min(BatchSizeFlag, size - currentIndex) :
             \E F \in SUBSET (1..n) :
                /\ Cardinality(F) <= MaxFaults - faults - CallFaults(answers)
                /\ \E kind \in [F -> CTLeafFaults] :
                      /\ cur' = [BatchIndex |-> 0, StartIndex |-> currentIndex,
                                 Entries |-> [k \in 1..n |->
                                     IF k \in F THEN FaultyLeaf(kind[k]) ELSE LeafGood],
                                 Error |-> FALSE]
                      /\ faults' = faults + CallFaults(answers) + Cardinality(F)
    /\ iter' = 0
    /\ fpc' = "batch"
    /\ UNCHANGED <<exitCode, doneClosed, fetchDoneClosed, currentIndex,
                   processedInChunk, ctxCancelled, logChan, logChanClosed, sent,
                   handled, notCT>>

\* End of log: an empty entries list, or a 400 Bad Request before the last
\* attempt ("end_of_log:"): the loop waits for pollingInterval or done.
CTEndOfLog ==
    /\ Alive /\ IsCT /\ fpc = "top" /\ ~doneClosed
    /\ \E size \in remoteSize..MaxLog, answers \in GetEntriesRuns :
          /\ CTCall(size, answers)
          /\ afterFetchEntries(fetchEntriesWithRetry(answers)) = "poll"
          /\ faults + CallFaults(answers) <= MaxFaults
          /\ faults' = faults + CallFaults(answers)
    /\ fpc' = "poll"
    /\ UNCHANGED <<exitCode, doneClosed, fetchDoneClosed, currentIndex,
                   processedInChunk, cur, iter, ctxCancelled, logChan, logChanClosed,
                   sent, handled, notCT>>

\* The fetch fails on every attempt (a 400 on the last attempt included): the
\* error lacks "end_of_log:" and the loop returns.
CTFetchFails ==
    /\ Alive /\ IsCT /\ fpc = "top" /\ ~doneClosed
    /\ \E size \in remoteSize..MaxLog, answers \in GetEntriesRuns :
          /\ CTCall(size, answers)
          /\ afterFetchEntries(fetchEntriesWithRetry(answers)) = "return"
          /\ faults + CallFaults(answers) <= MaxFaults
          /\ faults' = faults + CallFaults(answers)
    /\ FetchReturn
    /\ UNCHANGED <<exitCode, doneClosed, currentIndex, processedInChunk,
                   cur, iter, logChan, sent, handled, notCT>>

\* case <-time.After(pollingInterval): continue.
CTPoll ==
    /\ Alive /\ IsCT /\ fpc = "poll"
    /\ fpc' = "top"
    /\ rw' = RWIdle
    /\ UNCHANGED <<remoteSize, faults, exitCode, doneClosed, fetchDoneClosed,
                   currentIndex, processedInChunk, cur, iter, ctxCancelled, logChan,
                   logChanClosed, sent, handled, notCT>>

\* case <-done while polling.
CTShutdownWhilePolling ==
    /\ Alive /\ IsCT /\ fpc = "poll" /\ doneClosed
    /\ FetchReturn
    /\ UNCHANGED <<remoteSize, faults, exitCode, doneClosed, currentIndex,
                   processedInChunk, cur, iter, logChan, sent, handled, rw, notCT>>

CTInEntryLoop == fpc = "batch" /\ iter < Len(cur.Entries)
CTParsed == parseLogEntry(cur.Entries[iter + 1], CTLogID, currentIndex + iter)
CTHandled == [LogIndex |-> currentIndex + iter, Leaf |-> cur.Entries[iter + 1]]

\* Parse error: "Skipping.", continue.
CTEntrySkipped ==
    /\ Alive /\ IsCT /\ CTInEntryLoop
    /\ ~CTParsed.ok
    /\ iter' = iter + 1
    /\ handled' = handled \cup {CTHandled}
    /\ UNCHANGED <<remoteSize, faults, exitCode, doneClosed, fetchDoneClosed,
                   currentIndex, fpc, processedInChunk, cur, ctxCancelled, logChan,
                   logChanClosed, sent, rw, notCT>>

CTSendRow ==
    /\ Len(logChan) < LogChannelBuffer
    /\ logChan' = Append(logChan, CTParsed.details)
    /\ sent' = Append(sent, [row |-> CTParsed.details, index |-> currentIndex + iter,
                             checkpoint |-> <<>>])
    /\ handled' = handled \cup {CTHandled}
    /\ processedInChunk' = processedInChunk + 1
    /\ iter' = iter + 1
    /\ fpc' = "batch"

\* case logChan <- details
CTEntrySent ==
    /\ Alive /\ IsCT /\ CTInEntryLoop
    /\ CTParsed.ok
    /\ CTSendRow
    /\ UNCHANGED <<remoteSize, faults, exitCode, doneClosed, fetchDoneClosed,
                   currentIndex, cur, ctxCancelled, logChanClosed, rw, notCT>>

\* case <-done in the send select.
CTShutdownAtSend ==
    /\ Alive /\ IsCT /\ CTInEntryLoop
    /\ CTParsed.ok
    /\ doneClosed
    /\ FetchReturn
    /\ UNCHANGED <<remoteSize, faults, exitCode, doneClosed, currentIndex,
                   processedInChunk, cur, iter, logChan, sent, handled, rw, notCT>>

\* default: the queue is full and done is open: a blocking send.
CTSendBlocks ==
    /\ Alive /\ IsCT /\ CTInEntryLoop
    /\ CTParsed.ok
    /\ ~doneClosed
    /\ Len(logChan) >= LogChannelBuffer
    /\ fpc' = "blocked"
    /\ UNCHANGED <<remoteSize, faults, exitCode, doneClosed, fetchDoneClosed,
                   currentIndex, processedInChunk, cur, iter, ctxCancelled, logChan,
                   logChanClosed, sent, handled, rw, notCT>>

CTBlockedSendCompletes ==
    /\ Alive /\ IsCT /\ fpc = "blocked"
    /\ CTSendRow
    /\ UNCHANGED <<remoteSize, faults, exitCode, doneClosed, fetchDoneClosed,
                   currentIndex, cur, ctxCancelled, logChanClosed, rw, notCT>>

\* A plausible slip: the index advances by the size of the range requested.
CTBatchDoneByRequest ==
    /\ Alive /\ IsCT /\ fpc = "batch" /\ ~CTInEntryLoop
    /\ currentIndex' = currentIndex + BatchSizeFlag
    /\ fpc' = "top"
    /\ cur' = NoResult /\ iter' = 0
    /\ rw' = RWIdle
    /\ UNCHANGED <<remoteSize, faults, exitCode, doneClosed, fetchDoneClosed,
                   processedInChunk, ctxCancelled, logChan, logChanClosed, sent,
                   handled, notCT>>

\* currentIndex += len(getEntriesResp.Entries)
CTBatchDone ==
    /\ Alive /\ IsCT /\ fpc = "batch" /\ ~CTInEntryLoop
    /\ currentIndex' = currentIndex + Len(cur.Entries)
    /\ fpc' = "top"
    /\ cur' = NoResult /\ iter' = 0
    /\ rw' = RWIdle
    /\ UNCHANGED <<remoteSize, faults, exitCode, doneClosed, fetchDoneClosed,
                   processedInChunk, ctxCancelled, logChan, logChanClosed, sent,
                   handled, notCT>>

CTNext ==
    \/ CTShutdownAtTop \/ CTFetchEntries \/ CTEndOfLog \/ CTFetchFails \/ CTPoll
    \/ CTShutdownWhilePolling \/ CTEntrySkipped \/ CTEntrySent \/ CTShutdownAtSend
    \/ CTSendBlocks \/ CTBlockedSendCompletes \/ CTBatchDone

RekorNext ==
    \/ RekorShutdownAtTop \/ RekorEnterPolling \/ RekorPoll \/ RekorShutdownWhilePolling
    \/ RekorDispatch
    \/ \E b \in Batches :
          \/ WorkerRateLimited(b) \/ WorkerCancelled(b) \/ WorkerFails(b) \/ WorkerFetches(b)
          \/ WorkerAddsLate(b)
    \/ CollectorClosedAfterWorkers
    \/ RekorTakeResult \/ RekorBatchDone \/ RekorEntryNotFound \/ RekorEntryFatal
    \/ RekorEntryCheckpointFailure \/ RekorEntrySkipped \/ RekorEntrySent
    \/ RekorShutdownAtSend \/ RekorSendBlocks \/ RekorBlockedSendCompletes
    \/ RekorChunkDone

Next ==
    \/ MainFetchLogInfo \/ ResumeLookup \/ Resume \/ MainSignal \/ MainFetchDone \/ MainReturn
    \/ SinkReceive \/ SinkFlushFullBatch \/ SinkChannelClosed \/ SinkTicker
    \/ SinkShutdown \/ SinkDrainReceive \/ SinkDrainEnds \/ SinkDrainFlush
    \/ RekorNext
    \/ CTNext
    \/ Restart

Spec == Init /\ [][Next]_vars

\* The pipeline with the tasks that shutdown relies on scheduled fairly: the
\* sink's select takes its done case, and main's wg.Wait() returns, when they
\* can. Nothing is assumed of the fetch task, its workers or the remote log.
\* One process run is followed: there is no later start.
NextShutdown ==
    \/ MainFetchLogInfo \/ ResumeLookup \/ Resume \/ MainSignal \/ MainFetchDone \/ MainReturn
    \/ SinkReceive \/ SinkFlushFullBatch \/ SinkChannelClosed \/ SinkTicker
    \/ SinkShutdown \/ SinkDrainReceive \/ SinkDrainEnds \/ SinkDrainFlush
    \/ RekorNext
    \/ CTNext
SpecShutdown ==
    /\ Init /\ [][NextShutdown]_vars
    /\ WF_vars(SinkFlushFullBatch)
    /\ WF_vars(SinkShutdown) /\ WF_vars(SinkDrainReceive) /\ WF_vars(SinkDrainEnds)
    /\ WF_vars(SinkDrainFlush)
    /\ WF_vars(MainReturn)


\* ------------------------------------------ the circuit breaker on its own
\* A CircuitBreaker driven by arbitrary calls, as its methods allow: the
\* caller may call canExecute, recordSuccess and recordFailure in any order
\* while the clock advances.
notCB == <<envVars, poolVars, faults, exitCode, mpc, doneClosed, fetchDoneClosed, logInfo, rlt,
           currentIndex, fpc, chunkVars, logChan, logChanClosed, spc, batch, stored,
           histVars, closer, rw, gh>>

InitCB ==
    /\ ingester = "rekor"
    /\ run = 1
    /\ startIndexFlag = 0
    /\ remoteSize = 0
    /\ faults = 0
    /\ stored = <<>>
    /\ baseLen = 0
    /\ spc = "run"
    /\ StartProcess(MaxConc, <<>>)

CBCanExecute ==
    /\ cbOp' = IF canExecute(cb, now) THEN "allowed" ELSE "rejected"
    /\ cb' = afterCanExecute(cb, now)
    /\ UNCHANGED <<now, streak, notCB>>

CBRecordSuccess ==
    /\ cb' = recordSuccess(cb)
    /\ cbOp' = "success"
    /\ streak' = 0
    /\ UNCHANGED <<now, notCB>>

CBRecordFailure ==
    /\ streak < MaxFailures
    /\ cb' = recordFailure(cb, now)
    /\ cbOp' = "failure"
    /\ streak' = streak + 1
    /\ UNCHANGED <<now, notCB>>

\* One second passes.
CBTick ==
    /\ now < MaxClock
    /\ now' = now + 1
    /\ cbOp' = "tick"
    /\ UNCHANGED <<cb, streak, notCB>>

NextCB == CBCanExecute \/ CBRecordSuccess \/ CBRecordFailure \/ CBTick
SpecCB == InitCB /\ [][NextCB]_vars


\* --------------------------------------------- the retry wrappers on their own
\* ingestBatchWithRetry, fetchLogEntriesBatchWithRetry and fetchLogInfoWithRetry
\* called again and again by a caller that survives their errors. rw is the
\* call frame (fn, pc, attempt, rateLimitAttempts, result) with the history of
\* the call: calls (operations attempted), limited (429 responses), transient
\* (other errors), halfOpenOps (store operations attempted since the breaker
\* became half-open). The clock is read by an open breaker only, and advances
\* while the breaker is open.
notRW == <<envVars, poolVars, faults, exitCode, mpc, doneClosed, fetchDoneClosed, logInfo,
           currentIndex, fpc, chunkVars, logChan, logChanClosed, spc, batch, stored,
           histVars, closer, cbOp, streak, gh>>

InitRW == InitCB

\* ingestBatchWithRetry is called: the breaker decides whether the loop starts.
RWCallInsert ==
    /\ rw.pc = "idle"
    /\ LET carried == IF cb.state = "half-open" THEN rw.halfOpenOps ELSE 0 IN
       IF canExecute(cb, now)
       THEN rw' = [RWIdle EXCEPT !.fn = "insert", !.pc = "loop", !.halfOpenOps = carried]
       ELSE rw' = [RWIdle EXCEPT !.fn = "insert", !.result = "rejected"]
    /\ cb' = afterCanExecute(cb, now)
    /\ UNCHANGED <<now, rlt, notRW>>

\* One pass of the loop of ingestBatchWithRetry: ingestBatch succeeds or fails.
RWInsertAttempt ==
    /\ rw.pc = "loop" /\ rw.fn = "insert"
    /\ LET tried == [rw EXCEPT !.calls = @ + 1,
                               !.halfOpenOps = IF cb.state = "half-open" THEN @ + 1 ELSE @]
       IN  \/ /\ cb' = recordSuccess(cb)
              /\ rw' = [tried EXCEPT !.pc = "idle", !.result = "ok"]
           \/ /\ rw.attempt = maxRetries
              /\ cb.failureCount < MaxFailures
              /\ cb' = recordFailure(cb, now)
              /\ rw' = [tried EXCEPT !.pc = "idle", !.result = "failed", !.transient = @ + 1]
           \/ /\ rw.attempt < maxRetries
              /\ rw' = [tried EXCEPT !.attempt = @ + 1, !.transient = @ + 1]
              /\ UNCHANGED cb
    /\ UNCHANGED <<now, rlt, notRW>>

\* fetchLogEntriesBatchWithRetry or fetchLogInfoWithRetry is called.
RWCallFetch ==
    /\ rw.pc = "idle"
    /\ \E fn \in {"entries", "info"} :
          rw' = [RWIdle EXCEPT !.fn = fn, !.pc = "loop", !.halfOpenOps = rw.halfOpenOps]
    /\ UNCHANGED <<now, cb, rlt, notRW>>

\* One pass of the loop of a fetch wrapper: the request succeeds, is answered
\* 429, or fails otherwise.
RWFetchAttempt ==
    /\ rw.pc = "loop" /\ rw.fn \in {"entries", "info"}
    /\ LET tried == [rw EXCEPT !.calls = @ + 1] IN
       \/ /\ rw' = [tried EXCEPT !.pc = "idle", !.result = "ok"]
          /\ UNCHANGED rlt
       \/ \E rateLimited \in BOOLEAN :
             /\ rateLimited => rlt.rateLimitCount < MaxRateLimits
             /\ LET failed == IF rateLimited
                              THEN [tried EXCEPT !.limited = @ + 1]
                              ELSE [tried EXCEPT !.transient = @ + 1]
                IN  IF rw.attempt = maxRetries
                    THEN /\ rw' = [failed EXCEPT !.pc = "idle", !.result = "failed"]
                         /\ UNCHANGED rlt
                    ELSE IF rateLimited
                    THEN /\ rlt' = OnRateLimit(rlt, now)
                         /\ rw' = [failed EXCEPT !.rateLimitAttempts = @ + 1,
                                                 !.attempt = @ + 1]
                    ELSE /\ rw' = [failed EXCEPT !.attempt = @ + 1]
                         /\ UNCHANGED rlt
    /\ UNCHANGED <<now, cb, notRW>>

\* One second of the cool-down of an open breaker passes.
RWTick ==
    /\ cb.state = "open" /\ now < MaxClock
    /\ now' = now + 1
    /\ UNCHANGED <<cb, rlt, rw, notRW>>

NextRW == RWCallInsert \/ RWInsertAttempt \/ RWCallFetch \/ RWFetchAttempt \/ RWTick
SpecRW == InitRW /\ [][NextRW]_vars

\* ------------------------------------------------ the rate governor on its own
\* A RateLimitTracker driven by rate-limit events, chunk successes and the
\* clock. gh is the history: the last operation and the tracker before it, the
\* numbers of rate-limit events and of recovery steps, the chunk successes
\* counted since the last event or recovery step (counted now, countedAtOp at
\* the last chunk success, that one included), and the times of the last event
\* and of the last two recovery steps.
notGov == <<envVars, poolVars, faults, exitCode, mpc, doneClosed, fetchDoneClosed, logInfo,
            currentIndex, fpc, chunkVars, logChan, logChanClosed, spc, batch, stored,
            cb, histVars, closer, cbOp, streak, rw>>

InitGov ==
    /\ ingester = "rekor"
    /\ run = 1
    /\ startIndexFlag = 0
    /\ remoteSize = 0
    /\ faults = 0
    /\ stored = <<>>
    /\ baseLen = 0
    /\ spc = "run"
    /\ \E c \in 1..MaxCeiling : StartProcess(c, <<>>)

\* A request is answered 429 before its last attempt: OnRateLimit.
GovRateLimit ==
    /\ gh.events < MaxEvents
    /\ rlt' = OnRateLimit(rlt, now)
    /\ gh' = [gh EXCEPT !.op = "ratelimit", !.events = @ + 1, !.counted = 0,
                        !.lastEvent = now, !.before = rlt]
    /\ UNCHANGED <<now, notGov>>

\* A chunk ends with rows sent: OnChunkSuccess. The step is a recovery step
\* when the tracker stamps lastRecoveryStep.
GovChunkSuccess ==
    /\ gh.chunksThisTick < MaxChunksPerTick
    /\ rlt' = OnChunkSuccess(rlt, now)
    /\ LET step == rlt'.lastRecoveryStep # rlt.lastRecoveryStep
                   \/ rlt'.currentConcurrency # rlt.currentConcurrency
                   \/ rlt'.rateLimited # rlt.rateLimited
       IN  gh' = [gh EXCEPT !.op = "chunk",
                            !.chunksThisTick = @ + 1,
                            !.countedAtOp = gh.counted + 1,
                            !.counted = IF step THEN 0 ELSE @ + 1,
                            !.recoveries = IF step THEN @ + 1 ELSE @,
                            !.prevRecovery = gh.lastRecovery,
                            !.lastRecovery = IF step THEN now ELSE @,
                            !.before = rlt]
    /\ UNCHANGED <<now, notGov>>

\* TickSeconds seconds pass.
GovTick ==
    /\ now + TickSeconds <= MaxGovClock
    /\ now' = now + TickSeconds
    /\ gh' = [gh EXCEPT !.op = "tick", !.chunksThisTick = 0, !.before = rlt]
    /\ UNCHANGED <<rlt, notGov>>

NextGov == GovRateLimit \/ GovChunkSuccess \/ GovTick
SpecGov == InitGov /\ [][NextGov]_vars

\* The governor under repeated chunk successes and elapsing time: chunks keep
\* ending with rows sent (at least one between two clock steps), and the
\* rate-limit events stop early enough for the clock to cover a full recovery.
RECURSIVE CeilLog2(_)
CeilLog2(c) == IF c <= 1 THEN 0 ELSE 1 + CeilLog2((c + 1) \div 2)
StepAfter(d) == ((d \div TickSeconds) + 1) * TickSeconds
RecoverySpan ==
    StepAfter(15) + (IF CeilLog2(MaxCeiling) > 1
                     THEN (CeilLog2(MaxCeiling) - 1) * StepAfter(10) ELSE 0)

GovRateLimitEarly ==
    /\ now + RecoverySpan <= MaxGovClock
    /\ GovRateLimit

GovTickPaced ==
    /\ gh.chunksThisTick >= 1
    /\ GovTick

NextGovLive == GovRateLimitEarly \/ GovChunkSuccess \/ GovTickPaced
SpecGovLive ==
    /\ InitGov /\ [][NextGovLive]_vars
    /\ WF_vars(GovChunkSuccess) /\ WF_vars(GovTickPaced)


\* ----------------------------------------------- the proxy pool on its own
\* NewProxyPool, NewProxyPoolFromURL, the refresh task and the workers' draws.
\* The lists a file or the URL can hold: one, two and three proxies (with
\* blanks, comments and malformed lines among them), lists without a valid
\* entry, and lists with a line too long for the scanner.
ProxyLine(h) == <<h, ":", "p", ":", "u", ":", "w">>
ProxyBodies ==
    { <<ProxyLine("a")>>,
      <<ProxyLine("a"), ProxyLine("b")>>,
      << <<"#", "x">>, <<" ">> \o ProxyLine("b") \o <<" ">>, <<"a", ":", "p", ":", "u">>,
         ProxyLine("c"), <<>>, ProxyLine("a") >>,
      << <<"#">> \o ProxyLine("a"), <<" ", " ">>, ProxyLine("a") \o <<":", "x">> >>,
      <<ProxyLine("a"), <<LongRun>> >>,
      <<ProxyLine("a"), <<LongRun>> \o ProxyLine("b"), ProxyLine("c")>>,
      <<>> }
ProxyResponses ==
    {[err |-> TRUE, status |-> 0, body |-> <<>>],
     [err |-> FALSE, status |-> 500, body |-> <<ProxyLine("a")>>]}
    \cup {[err |-> FALSE, status |-> 200, body |-> b] : b \in ProxyBodies}
ProxyFiles ==
    {[name |-> "proxies.txt", openErr |-> TRUE, content |-> <<>>]}
    \cup {[name |-> "proxies.txt", openErr |-> FALSE, content |-> b] : b \in ProxyBodies}

notPP == <<envVars, faults, now, exitCode, mpc, doneClosed, fetchDoneClosed, logInfo,
           rlt, currentIndex, fpc, chunkVars, logChan, logChanClosed, spc, batch,
           stored, cb, histVars, closer, cbOp, streak, rw, gh, pgp>>

InitPP == InitCB

\* NewProxyPoolFromURL: the initial fetch; an error leaves no pool (main ends).
\* With a pool the refresh task is started.
PPConstruct(resp) ==
    /\ pph.op = "none"
    /\ LET fetched == fetchProxyListFromURL(resp) IN
       /\ pp' = IF fetched.ok THEN [proxies |-> fetched.proxies, current |-> 0] ELSE NoPool
       /\ pph' = [pph EXCEPT !.op = IF fetched.ok THEN "constructed" ELSE "failed",
                             !.source = "url",
                             !.before = pp]
    /\ UNCHANGED notPP

\* NewProxyPool: the pool read from the file of -proxy_file; an error leaves no
\* pool (main ends). No refresh task is started: the list stays as read.
PPConstructFromFile(file) ==
    /\ pph.op = "none"
    /\ LET read == NewProxyPool(file) IN
       /\ pp' = IF read.ok THEN [proxies |-> read.proxies, current |-> 0] ELSE NoPool
       /\ pph' = [pph EXCEPT !.op = IF read.ok THEN "constructed" ELSE "failed",
                             !.source = "file",
                             !.before = pp]
    /\ UNCHANGED notPP

\* CreateHTTPClient in a worker: GetNextProxy.
PPGetNextProxy ==
    /\ pph.op \notin {"none", "failed"}
    /\ Len(pph.drawn) < MaxDraws
    /\ LET r == GetNextProxy(pp) IN
       /\ pp' = r.pool
       /\ pph' = [pph EXCEPT !.op = "draw", !.before = pp,
                             !.drawn = Append(@, [found |-> r.found, index |-> r.index,
                                                  proxy |-> IF r.found THEN pp.proxies[r.index + 1]
                                                            ELSE <<>>])]
    /\ UNCHANGED notPP

\* The refresh task: case <-ticker.C.
PPRefresh(resp) ==
    /\ pph.op \notin {"none", "failed"} /\ pph.source = "url"
    /\ pph.refreshes < MaxRefreshes
    /\ LET fetched == fetchProxyListFromURL(resp) IN
       /\ pp' = RefreshPool(pp, fetched)
       /\ pph' = [pph EXCEPT !.op = IF fetched.ok THEN "refreshed" ELSE "refreshFailed",
                             !.before = pp,
                             !.drawn = IF fetched.ok THEN <<>> ELSE @,
                             !.refreshes = @ + 1]
    /\ UNCHANGED notPP

NextPP ==
    \/ \E resp \in ProxyResponses : PPConstruct(resp)
    \/ \E file \in ProxyFiles : PPConstructFromFile(file)
    \/ PPGetNextProxy
    \/ \E resp \in ProxyResponses : PPRefresh(resp)
SpecPP == InitPP /\ [][NextPP]_vars

\* ------------------------------------------- the proxy pool and its mutex
\* The refresh task and one worker calling CreateHTTPClient, statement by
\* statement. pph.mu is who holds pool.mu ("free", "refresher", "client"),
\* pph.refresher and pph.client are the positions of the two tasks,
\* pph.pending the list the refresh task fetched, pph.lenRead the length the
\* worker read.
\* case <-ticker.C: the fetch fails (the pool is left alone), or it succeeds
\* and the task takes pool.mu.
PLRefreshLock(resp) ==
    /\ pph.op \notin {"none", "failed"} /\ pph.source = "url"
    /\ pph.refresher = "idle"
    /\ pph.refreshes < MaxRefreshes
    /\ LET fetched == fetchProxyListFromURL(resp) IN
       IF fetched.ok
       THEN /\ pph.mu = "free"
            /\ pph' = [pph EXCEPT !.mu = "refresher", !.refresher = "locked",
                                  !.pending = fetched.proxies]
       ELSE pph' = [pph EXCEPT !.op = "refreshFailed", !.before = pp,
                               !.refreshes = @ + 1]
    /\ UNCHANGED <<pp, notPP>>

\* pool.proxies = newProxies; pool.current = 0
PLRefreshSwap ==
    /\ pph.refresher = "locked"
    /\ pp' = RefreshPool(pp, [ok |-> TRUE, proxies |-> pph.pending])
    /\ pph' = [pph EXCEPT !.refresher = "swapped", !.before = pp]
    /\ UNCHANGED notPP

\* pool.mu.Unlock()
PLRefreshUnlock ==
    /\ pph.refresher = "swapped"
    /\ pph' = [pph EXCEPT !.mu = "free", !.refresher = "idle", !.op = "refreshed",
                          !.drawn = <<>>, !.pending = <<>>, !.refreshes = @ + 1]
    /\ UNCHANGED <<pp, notPP>>

\* CreateHTTPClient: len(proxyPool.proxies) > 0 is read without pool.mu. A read
\* that runs while the refresh task is between Lock and Unlock races with the
\* assignment of the list: it gets the old length or the new one.
PLClientReadsLen ==
    /\ pph.op \notin {"none", "failed"}
    /\ pph.client = "idle"
    /\ Len(pph.drawn) < MaxDraws
    /\ \E n \in IF pph.mu = "refresher"
                THEN {Len(pp.proxies), Len(pph.pending)}
                ELSE {Len(pp.proxies)} :
          pph' = [pph EXCEPT !.client = "checked", !.lenRead = n]
    /\ UNCHANGED <<pp, notPP>>

\* The length read was above 0 (a pool has no empty list, so it always is):
\* GetNextProxy, pp.mu.Lock()
PLClientLock ==
    /\ pph.client = "checked" /\ pph.lenRead > 0
    /\ pph.mu = "free"
    /\ pph' = [pph EXCEPT !.mu = "client", !.client = "locked"]
    /\ UNCHANGED <<pp, notPP>>

\* GetNextProxy: the entry under the cursor, the cursor advanced; Unlock.
PLClientDraw ==
    /\ pph.client = "locked"
    /\ LET r == GetNextProxy(pp) IN
       /\ pp' = r.pool
       /\ pph' = [pph EXCEPT !.mu = "free", !.client = "idle", !.op = "draw",
                             !.before = pp,
                             !.drawn = Append(@, [found |-> r.found, index |-> r.index,
                                                  proxy |-> IF r.found THEN pp.proxies[r.index + 1]
                                                            ELSE <<>>])]
    /\ UNCHANGED notPP

NextPL ==
    \/ \E resp \in ProxyResponses : PPConstruct(resp)
    \/ \E file \in ProxyFiles : PPConstructFromFile(file)
    \/ \E resp \in ProxyResponses : PLRefreshLock(resp)
    \/ PLRefreshSwap
    \/ PLRefreshUnlock
    \/ PLClientReadsLen
    \/ PLClientLock
    \/ PLClientDraw
SpecPL == InitPP /\ [][NextPL]_vars

\* ------------------------------------------- the PGP packet walk on its own
\* parsePGPPackets over streams of one packet, alone or followed by a one-octet
\* user ID packet: headers of both formats, every length form at its
\* boundaries, and bodies shorter than, equal to and longer than announced.
MaxBody == 4
PGPHeaders == {205, 194, 198, 180, 181, 182, 183, 77}
LengthOctets ==
    {<<>>, <<0>>, <<2>>, <<191>>, <<192>>, <<192, 0>>, <<192, 1>>, <<223, 255>>,
     <<224>>, <<225>>, <<226>>, <<254>>, <<255>>, <<255, 0, 0, 0, 1>>,
     <<255, 0, 0, 0, 3>>, <<255, 0, 0, 1, 0>>, <<0, 0, 0, 2>>}
BodyLens == (0..MaxBody) \cup {6, 191, 192, 193}
\* a body of n octets that is a version 4 EdDSA key when n >= 6
Body(n) == [i \in 1..n |-> IF i = 1 THEN 4 ELSE IF i = 6 THEN 22 ELSE 65]
PacketStreams ==
    {<<h>> \o lo \o Body(n) \o t :
        h \in PGPHeaders, lo \in LengthOctets, n \in BodyLens,
        t \in {<<>>, <<205, 1, 65>>}}

notPGP == <<pp, pph, envVars, faults, now, exitCode, mpc, doneClosed, fetchDoneClosed,
            logInfo, rlt, currentIndex, fpc, chunkVars, logChan, logChanClosed, spc,
            batch, stored, cb, histVars, closer, cbOp, streak, rw, gh>>

InitPGP == InitCB

\* parsePGPPackets(data, details) is called: offset := 0.
PGPLoad(data) ==
    /\ pgp.op = "none"
    /\ pgp' = [NoPacketStream EXCEPT !.op = "loaded", !.data = data]
    /\ UNCHANGED notPGP

\* One turn of "for offset < len(data)": parsePGPPacket(data[offset:]); an
\* error ends the loop, otherwise offset += packetLen.
PGPParsePacket ==
    /\ pgp.op \in {"loaded", "parsed"}
    /\ pgp.offset < Len(pgp.data)
    /\ LET res == parsePGPPacket(SubSeq(pgp.data, pgp.offset + 1, Len(pgp.data))) IN
       pgp' = [pgp EXCEPT !.res = res, !.at = pgp.offset,
                          !.op = IF res.err # "" THEN "failed" ELSE "parsed",
                          !.offset = IF res.err # "" THEN @ ELSE @ + res.consumed]
    /\ UNCHANGED notPGP

\* The loop condition fails: the stream is used up.
PGPLoopEnds ==
    /\ pgp.op \in {"loaded", "parsed"}
    /\ pgp.offset >= Len(pgp.data)
    /\ pgp' = [pgp EXCEPT !.op = "done"]
    /\ UNCHANGED notPGP

NextPGP ==
    \/ \E data \in PacketStreams : PGPLoad(data)
    \/ PGPParsePacket
    \/ PGPLoopEnds
SpecPGP == InitPGP /\ [][NextPGP]_vars

\* ----------------------------------------------------- the sink on its own
\* dbInserter fed by an arbitrary producer: rows arrive on the queue, the
\* cancellation handle is closed, the queue is closed, in any order.
notSK == <<envVars, poolVars, faults, now, mpc, fetchDoneClosed, logInfo, rlt, currentIndex,
           fpc, chunkVars, missed, handled, baseLen, resumedAt, closer, cbOp,
           streak, rw, gh>>

InitSK == InitCB

\* case logChan <- details, in the producer.
SKSend ==
    /\ Alive /\ ~logChanClosed
    /\ Len(sent) < MaxRows /\ Len(logChan) < MaxQueued
    /\ LET row == [NoCertificate EXCEPT !.LogIndex = Len(sent)] IN
       /\ logChan' = Append(logChan, row)
       /\ sent' = Append(sent, [row |-> row, index |-> Len(sent), checkpoint |-> <<>>])
    /\ UNCHANGED <<doneClosed, logChanClosed, spc, batch, stored, cb, exitCode, notSK>>

\* close(done)
SKCloseDone ==
    /\ Alive /\ ~doneClosed
    /\ doneClosed' = TRUE
    /\ UNCHANGED <<logChan, logChanClosed, spc, batch, stored, cb, exitCode, sent, notSK>>

\* The producer returns: its deferred close(logChan).
SKCloseQueue ==
    /\ Alive /\ ~logChanClosed
    /\ logChanClosed' = TRUE
    /\ UNCHANGED <<logChan, doneClosed, spc, batch, stored, cb, exitCode, sent, notSK>>

NextSK ==
    \/ SinkReceive \/ SinkFlushFullBatch \/ SinkChannelClosed \/ SinkTicker
    \/ SinkShutdown \/ SinkDrainReceive \/ SinkDrainEnds \/ SinkDrainFlush
    \/ SKSend \/ SKCloseDone \/ SKCloseQueue
SpecSK == InitSK /\ [][NextSK]_vars

\* ------------------------------------------------ the collector on its own
\* One chunk of MaxWorkers sub-batches with a result channel of
\* ResultChanCapacity slots. wk[b] is "run" (fetching), "send" (inside
\* AddResult, holding the collector's mutex, blocked in the send on the result
\* channel) or "fin". fpc is the consumer: "collect" (ranging over the
\* results), "closing" (fetchCancel done, calling collector.Close), "exited",
\* "top" (the chunk ended).
Workers == 0..(MaxWorkers - 1)
MutexFree == \A b \in Workers : wk[b] # "send"

\* The emit loop of AddResult as far as the result channel has room.
RECURSIVE EmitWhileRoom(_)
EmitWhileRoom(c) ==
    IF HasBatch(c, c.nextExpected) /\ Len(c.resultChan) < ResultChanCapacity
    THEN EmitWhileRoom([c EXCEPT
             !.resultChan = Append(@, GetBatch(c, c.nextExpected)),
             !.batches = DeleteBatch(@, c.nextExpected),
             !.nextExpected = @ + 1])
    ELSE c
\* The emit loop stands in its blocking select: send or <-obc.done.
SendBlocked(c) == HasBatch(c, c.nextExpected) /\ ~c.closed

notOBC == <<envVars, poolVars, faults, now, exitCode, mpc, fetchDoneClosed, logInfo, rlt,
            currentIndex, chunkSize, processedInChunk, cur, iter, obcEmitted,
            obcArrived, logChan, logChanClosed, spc, batch, stored, cb, histVars,
            cbOp, streak, rw, gh>>

InitOBC == InitCB

\* fetchLogEntriesConcurrent: every sub-batch has its worker and its slot.
OBCDispatch ==
    /\ fpc = "init"
    /\ fpc' = "collect"
    /\ wk' = [b \in Workers |-> "run"]
    /\ obc' = NewOrderedBatchCollector
    /\ closer' = "armed"
    /\ UNCHANGED <<ctxCancelled, doneClosed, notOBC>>

\* fetchBatchConcurrent sees ctx.Done(), at its start or when its fetch has
\* returned, and returns without a result.
OBCWorkerCancelled(b) ==
    /\ fpc # "init"
    /\ wk[b] = "run" /\ ctxCancelled
    /\ wk' = [wk EXCEPT ![b] = "fin"]
    /\ UNCHANGED <<obc, fpc, closer, ctxCancelled, doneClosed, notOBC>>

\* AddResult: lock, return if closed, store, emit; the worker keeps the mutex
\* while its send waits for room in the channel.
OBCAddResult(b) ==
    /\ fpc # "init"
    /\ wk[b] = "run" /\ MutexFree
    /\ LET result == [BatchIndex |-> b, StartIndex |-> b, Entries |-> {}, Error |-> FALSE]
           c == IF obc.closed THEN obc
                ELSE EmitWhileRoom(
                         [obc EXCEPT !.batches = DeleteBatch(@, b) \cup {result}])
       IN  /\ obc' = c
           /\ wk' = [wk EXCEPT ![b] = IF SendBlocked(c) THEN "send" ELSE "fin"]
    /\ UNCHANGED <<fpc, closer, ctxCancelled, doneClosed, notOBC>>

\* The blocking select of the emit loop proceeds: the channel has room, or
\* obc.done is closed.
OBCSendProceeds(b) ==
    /\ fpc # "init"
    /\ wk[b] = "send"
    /\ obc.closed \/ Len(obc.resultChan) < ResultChanCapacity
    /\ LET c == IF obc.closed THEN obc ELSE EmitWhileRoom(obc)
       IN  /\ obc' = c
           /\ wk' = [wk EXCEPT ![b] = IF SendBlocked(c) THEN "send" ELSE "fin"]
    /\ UNCHANGED <<fpc, closer, ctxCancelled, doneClosed, notOBC>>

\* go func() { wg.Wait(); collector.Close() }()
OBCCloser ==
    /\ closer = "armed"
    /\ \A b \in Workers : wk[b] = "fin"
    /\ obc' = CloseCollector(obc)
    /\ closer' = "done"
    /\ UNCHANGED <<wk, fpc, ctxCancelled, doneClosed, notOBC>>

\* The result loop takes a result: on done, or when an entry of the result
\* fails its checkpoint validation, fetchCancel() and then collector.Close().
OBCTakeResult ==
    /\ fpc = "collect" /\ obc.resultChan # <<>>
    /\ obc' = [obc EXCEPT !.resultChan = Tail(@)]
    /\ \E mismatch \in BOOLEAN :
          IF doneClosed \/ mismatch
          THEN fpc' = "closing" /\ ctxCancelled' = TRUE
          ELSE UNCHANGED <<fpc, ctxCancelled>>
    /\ UNCHANGED <<wk, closer, doneClosed, notOBC>>

\* collector.Close() gets the mutex; the fetch task returns (after close(done)
\* on a checkpoint failure).
OBCConsumerClose ==
    /\ fpc = "closing" /\ MutexFree
    /\ obc' = CloseCollector(obc)
    /\ doneClosed' = TRUE
    /\ fpc' = "exited"
    /\ UNCHANGED <<wk, closer, ctxCancelled, notOBC>>

\* The range loop ends: the channel is closed and drained.
OBCChunkDone ==
    /\ fpc = "collect" /\ obc.resultChan = <<>> /\ obc.closed
    /\ obc' = CloseCollector(obc)
    /\ ctxCancelled' = TRUE
    /\ fpc' = "top"
    /\ UNCHANGED <<wk, closer, doneClosed, notOBC>>

\* SIGINT or SIGTERM: the main task closes done.
OBCSignal ==
    /\ ~doneClosed /\ fpc \in {"init", "collect"}
    /\ doneClosed' = TRUE
    /\ UNCHANGED <<wk, obc, fpc, closer, ctxCancelled, notOBC>>

NextOBC ==
    \/ OBCDispatch
    \/ \E b \in Workers : OBCWorkerCancelled(b) \/ OBCAddResult(b) \/ OBCSendProceeds(b)
    \/ OBCCloser \/ OBCTakeResult \/ OBCConsumerClose \/ OBCChunkDone \/ OBCSignal

\* Every task that can run does run (the Go scheduler); the signal is the
\* environment's.
SpecOBC ==
    /\ InitOBC /\ [][NextOBC]_vars
    /\ WF_vars(OBCDispatch) /\ WF_vars(OBCCloser) /\ WF_vars(OBCTakeResult)
    /\ WF_vars(OBCConsumerClose) /\ WF_vars(OBCChunkDone)
    /\ \A b \in Workers :
          /\ WF_vars(OBCWorkerCancelled(b)) /\ WF_vars(OBCAddResult(b))
          /\ WF_vars(OBCSendProceeds(b))

\* ================================================================ properties
SentIndexes == {sent[k].index : k \in 1..Len(sent)}
IsPrefix(a, b) == Len(a) <= Len(b) /\ SubSeq(b, 1, Len(a)) = a
SentRows == [k \in 1..Len(sent) |-> sent[k].row]
\* The rows committed by the current run, in commit order.
Committed == SubSeq(stored, baseLen + 1, Len(stored))

\* C1: in the Rekor ingester the global leaf indices of the rows sent to the
\* sink are strictly ascending within a run, whatever sub-batches fail, entries
\* are omitted or fail to parse.
C1_SentStrictlyAscending ==
    IsRekor =>
        \A i, j \in 1..Len(sent) : i < j => sent[i].index < sent[j].index

\* C2: the collector puts results on its channel in batch-index order 0, 1, 2,
\* ...: each index at most once, and k only after 0..k-1, whatever the order
\* in which the workers call AddResult.
C2_CollectorEmitsInOrder ==
    /\ \A i \in 1..Len(obcEmitted) : obcEmitted[i] = i - 1
    /\ ~obc.closed => obc.nextExpected = Len(obcEmitted)
    /\ \A r \in obc.batches : r.BatchIndex > obc.nextExpected

\* C2 witness: the result of batch 1 arrived before that of batch 0 and both
\* have been emitted.
C2_Witness ==
    /\ Len(obcArrived) >= 2 /\ obcArrived[1] = 1 /\ obcArrived[2] = 0
    /\ Len(obcEmitted) = 2

\* C3: no row is sent for an entry whose checkpoint is empty, malformed or
\* names another tree: the checkpoint of every row sent parses, and the tree id
\* parsed from it is the row's tree id, the announced active tree id.
C3_RowsCarryTheirCheckpointTree ==
    IsRekor =>
        \A k \in 1..Len(sent) :
            /\ sent[k].checkpoint # <<>>
            /\ ~parseCheckpointTreeID(sent[k].checkpoint).err
            /\ parseCheckpointTreeID(sent[k].checkpoint).treeID = sent[k].row.TreeID
            /\ sent[k].row.TreeID = logInfo.TreeID

\* C3 witness: a row has been sent and an entry with a bad checkpoint has been
\* handled without a row for it.
C3_Witness ==
    /\ IsRekor /\ sent # <<>>
    /\ \E e \in handled :
          /\ ~validateCheckpointTreeID(e.Checkpoint, logInfo.TreeID)
          /\ e.LogIndex \notin SentIndexes

\* An entry whose checkpoint failed validation has been handled in this run.
CheckpointMismatchSeen ==
    IsRekor /\ \E e \in handled : ~validateCheckpointTreeID(e.Checkpoint, logInfo.TreeID)

\* C4: after a checkpoint mismatch the process ends with a non-zero status, the
\* mismatching entry is not persisted, and every row sent before it is
\* committed before the process exits.
C4_MismatchExitsNonZeroAfterDraining ==
    (CheckpointMismatchSeen /\ ~Alive) =>
        /\ exitCode # 0
        /\ IsPrefix(SentRows, Committed)


\* The indexes stored for the log when the run started.
StoredAtStart == {stored[j].LogIndex : j \in 1..baseLen}

\* C5: in both ingesters the rows committed during a run are at every moment,
\* so also after a shutdown signal, a prefix in order of the rows sent to the
\* sink; a run started with start_index = -1 over a store that holds rows of
\* the log resumes at exactly the highest stored index plus one (for Rekor
\* shifted by the inactive shard sizes to a global index); and no row sent
\* during such a run carries an index less than or equal to a stored one.
C5_CommittedPrefixAndNoReEmission ==
    /\ IsPrefix(Committed, SentRows)
    /\ (startIndexFlag = -1 /\ resumedAt # -1 /\ StoredAtStart # {}) =>
          LET shift == IF IsRekor THEN SumSeq(logInfo.InactiveShards) ELSE 0 IN
          /\ resumedAt - shift - 1 \in StoredAtStart
          /\ \A m \in StoredAtStart : m <= resumedAt - shift - 1
    /\ startIndexFlag = -1 =>
          \A k \in 1..Len(sent) : \A m \in StoredAtStart : sent[k].row.LogIndex > m

\* C5 witness: a restarted run over a non-empty store has received the
\* shutdown signal with some of its sent rows committed and some not.
C5_Witness ==
    /\ run > 1 /\ baseLen > 0
    /\ startIndexFlag = -1 /\ resumedAt # -1
    /\ doneClosed /\ spc = "exited"
    /\ Committed # <<>>
    /\ Len(Committed) < Len(sent)

\* C6: with start_index = -1 the run starts at the highest index stored for
\* the log plus one, or at 0 when nothing is stored; the Rekor ingester adds
\* the sum of the inactive shard sizes to that value.
C6_ResumeIsMaxStoredPlusOne ==
    (startIndexFlag = -1 /\ resumedAt # -1) =>
        LET shift == IF IsRekor THEN SumSeq(logInfo.InactiveShards) ELSE 0 IN
        IF StoredAtStart = {}
        THEN resumedAt = shift
        ELSE /\ resumedAt - shift - 1 \in StoredAtStart
             /\ \A m \in StoredAtStart : m <= resumedAt - shift - 1

\* C7: in the Rekor ingester an index of a failed sub-batch or omitted from a
\* response is never left behind by the advance of currentIndex: between
\* chunks every such index below currentIndex has been sent.
C7_NoIndexSkipped ==
    (IsRekor /\ fpc = "top") =>
        \A g \in missed : g < currentIndex => g \in SentIndexes

\* C8: every entry the fetch loop has handled has a row sent for it, the
\* Rekor entries whose checkpoint fails validation excepted.
C8_EveryEntryYieldsARow ==
    \A e \in handled :
        IF IsRekor
        THEN validateCheckpointTreeID(e.Checkpoint, logInfo.TreeID)
                => e.LogIndex \in SentIndexes
        ELSE e.LogIndex \in SentIndexes

\* C9: while the process runs the sink has discarded no row: the rows sent are
\* the rows committed, then the rows it holds, then the rows still queued; and a
\* failed insert (the breaker has recorded a failure) has ended the process
\* with status 1.
C9_SinkFailureIsFatalNoRowDiscarded ==
    /\ (Alive /\ spc \in {"init", "run", "flush", "drain", "lastFlush"}) => SentRows = Committed \o batch \o logChan
    /\ (Alive /\ spc = "exited") => SentRows = Committed \o logChan
    /\ cb.failureCount > 0 => exitCode = 1

\* C9 witness: the sink's insert of a non-empty batch failed on every attempt
\* and the process has ended with status 1, the rows still in its hands.
C9_Witness ==
    /\ mpc # "resume" /\ spc = "run"
    /\ batch # <<>> /\ cb.failureCount = 1
    /\ exitCode = 1

\* C10: a breaker that starts closed counts the recordFailure calls since the
\* last recordSuccess; it is closed before the 10th of them and open right
\* after it; right after recordSuccess the count is 0 and the state closed.
C10_OpensAtTenthFailure ==
    /\ cb.failureCount = streak
    /\ streak < circuitBreakerLimit => cb.state = "closed"
    /\ (cbOp = "failure" /\ streak = circuitBreakerLimit) => cb.state = "open"
    /\ cbOp = "success" => (cb.failureCount = 0 /\ cb.state = "closed")

\* C10 witness: the 10th consecutive recordFailure has just been made and the
\* breaker is open.
C10_Witness ==
    /\ cbOp = "failure" /\ streak = circuitBreakerLimit
    /\ cb.state = "open"


\* C11: an open breaker rejects every canExecute made up to 60 s after the last
\* recorded failure and stays open; the first canExecute made after that
\* cool-down is allowed and leaves the breaker half-open. recordFailure stamps
\* the time of the failure.
C11_OpenRejectsUntilCoolDown ==
    /\ [](cbOp = "failure" => cb.lastFailure = now)
    /\ [][(cb.state = "open" /\ cbOp' \in {"allowed", "rejected"}) =>
             IF now - cb.lastFailure > circuitBreakerTimeout
             THEN cbOp' = "allowed" /\ cb'.state = "half-open"
             ELSE cbOp' = "rejected" /\ cb' = cb]_vars

\* C11 witness: the cool-down of an open breaker has passed, canExecute has
\* just allowed the attempt and the breaker is half-open.
C11_Witness ==
    /\ cbOp = "allowed" /\ cb.state = "half-open"
    /\ streak >= circuitBreakerLimit
    /\ now - cb.lastFailure = circuitBreakerTimeout + 1


\* C12: a half-open breaker allows a single attempt: at most one store
\* operation is attempted before the breaker leaves half-open; a success
\* has closed it, a failure has re-opened it.
C12_HalfOpenAllowsOneAttempt ==
    /\ rw.halfOpenOps <= 1
    /\ (rw.fn = "insert" /\ rw.result = "ok") => cb.state = "closed"
    /\ (rw.fn = "insert" /\ rw.result = "failed" /\ rw.halfOpenOps > 0) => cb.state = "open"

\* C13: a retry wrapper attempts its operation at most 5 times in one call.
C13_AtMostFiveAttempts ==
    rw.calls <= maxRetries

\* C14: in the fetch retry loops a rate-limited response is counted by the
\* rate-limit attempt counter and not by the general attempt counter: the
\* general counter stands at the number of other errors, and a call fails only
\* with its general attempts used up by such errors.
C14_RateLimitSparesGeneralBudget ==
    rw.fn \in {"entries", "info"} =>
        /\ rw.rateLimitAttempts <= rw.limited
        /\ rw.attempt <= rw.transient
        /\ rw.result = "failed" => rw.transient >= maxRetries

\* C15: each rate-limit event sets current to max(1, floor(current/2)), marks
\* the governor limited, resets the success counter and leaves the ceiling
\* unchanged; from current = ceiling = c and with no recovery step in between,
\* current is 1 once ceil(log2(c)) events have happened, and stays 1.
C15_RateLimitHalvesToOne ==
    /\ gh.op = "ratelimit" =>
          LET b == gh.before IN
          /\ IF b.currentConcurrency >= 2
             THEN /\ 2 * rlt.currentConcurrency <= b.currentConcurrency
                  /\ b.currentConcurrency <= 2 * rlt.currentConcurrency + 1
             ELSE rlt.currentConcurrency = 1
          /\ rlt.rateLimited
          /\ rlt.successfulChunks = 0
          /\ rlt.lastRateLimit = now
          /\ rlt.originalConcurrency = b.originalConcurrency
    /\ (gh.recoveries = 0 /\ gh.events >= CeilLog2(rlt.originalConcurrency))
          => rlt.currentConcurrency = 1

C15_Witness ==
    /\ gh.op = "ratelimit"
    /\ gh.recoveries = 0
    /\ rlt.originalConcurrency = MaxCeiling
    /\ gh.events = CeilLog2(MaxCeiling)
    /\ gh.before.currentConcurrency > 1
    /\ rlt.currentConcurrency = 1

\* C16: a chunk success raises current only when the governor is limited, at
\* least 2 chunk successes were counted since the last rate-limit event or
\* recovery step, at least 15 s passed since the last rate-limit event and at
\* least 10 s since the last recovery step; the new value is
\* min(2*current, ceiling); limited is cleared exactly when current reaches the
\* ceiling; nothing else of a chunk success changes current.
C16_RecoveryStepIsGuarded ==
    gh.op = "chunk" =>
        LET b == gh.before
            raised == rlt.currentConcurrency > b.currentConcurrency
            cleared == b.rateLimited /\ ~rlt.rateLimited
        IN  /\ rlt.currentConcurrency >= b.currentConcurrency
            /\ rlt.originalConcurrency = b.originalConcurrency
            /\ ~b.rateLimited => rlt = b
            /\ (raised \/ cleared) =>
                  /\ b.rateLimited
                  /\ gh.countedAtOp >= 2
                  /\ gh.lastEvent # ZeroTime /\ now - gh.lastEvent >= 15
                  /\ gh.prevRecovery = ZeroTime \/ now - gh.prevRecovery >= 10
                  /\ rlt.currentConcurrency =
                        Min(2 * b.currentConcurrency, b.originalConcurrency)
                  /\ ~rlt.rateLimited <=>
                        rlt.currentConcurrency = rlt.originalConcurrency
            /\ rlt.rateLimited = b.rateLimited \/ cleared

C16_Witness ==
    /\ gh.op = "chunk"
    /\ gh.recoveries >= 2
    /\ gh.prevRecovery # ZeroTime
    /\ rlt.currentConcurrency > gh.before.currentConcurrency
    /\ rlt.currentConcurrency = rlt.originalConcurrency
    /\ ~rlt.rateLimited

\* C17: once limited, every step that is not a rate-limit event leaves current
\* at least as large as it was, and when chunk successes keep coming while time
\* passes and no further rate-limit event arrives, current eventually equals
\* the ceiling with limited cleared.
C17_RecoversToCeiling ==
    /\ [][(rlt.rateLimited /\ gh'.op # "ratelimit") =>
             rlt'.currentConcurrency >= rlt.currentConcurrency]_vars
    /\ rlt.rateLimited ~>
          (~rlt.rateLimited /\ rlt.currentConcurrency = rlt.originalConcurrency)

C17_Witness ==
    /\ gh.events >= CeilLog2(MaxCeiling)
    /\ gh.recoveries >= CeilLog2(MaxCeiling)
    /\ rlt.originalConcurrency = MaxCeiling
    /\ rlt.currentConcurrency = MaxCeiling
    /\ ~rlt.rateLimited

\* C18: a completed chunk is reported to the governor as a chunk success only
\* if no request within the chunk observed a rate-limit response: after a chunk
\* in which a request was rate-limited, the success counter, which the event
\* reset to 0, is still 0.
C18_RateLimitedChunkIsNoSuccess ==
    (IsRekor /\ gh.op = "chunk" /\ gh.chunkEvents > 0) => rlt.successfulChunks = 0

\* C19: the number of workers holding a semaphore slot is at most the
\* governor's current concurrency.
C19_InFlightWithinCurrentConcurrency ==
    IsRekor => Cardinality({b \in Batches : wk[b] = "run"}) <= rlt.currentConcurrency

\* C20: whatever the interleaving of the workers' AddResult calls, the
\* consumer's Close and the Close that follows the last worker, the result
\* channel is closed exactly once (never twice, and once the last Close has
\* run), and nothing is sent on it after it was closed.
C20_ResultChannelClosedOnce ==
    /\ [](IsRekor =>
            /\ obc.closes <= 1
            /\ obc.closed <=> obc.closes = 1
            /\ closer = "done" => obc.closes = 1)
    /\ [][(obc.closed /\ obc'.closed) =>
             \/ obc'.resultChan = obc.resultChan
             \/ obc.resultChan # <<>> /\ obc'.resultChan = Tail(obc.resultChan)]_vars

C20_Witness ==
    /\ IsRekor
    /\ closer = "done"
    /\ fpc = "exited"
    /\ \E b \in Batches : wk[b] = "late"
    /\ obc.closes = 1

\* C21: after a cancellation while a chunk is in flight no task blocks forever:
\* the fetch loop's Close on the collector returns, and every worker gets out
\* of AddResult.
C21_CancellationReleasesEveryTask ==
    (fpc = "closing") ~> (fpc = "exited" /\ \A b \in Workers : wk[b] = "fin")

\* C22: in both ingesters, once the main task has closed the cancellation
\* handle after a signal, the process eventually terminates, whatever the
\* fetch task and its workers do or are blocked on; when main returns the
\* handle is closed and the sink has made its final flush and returned.
C22_SignalTerminatesTheProcess ==
    /\ [](mpc = "returned" =>
            exitCode = 0 /\ doneClosed /\ spc = "exited" /\ batch = <<>>)
    /\ (mpc = "waitSink") ~> (exitCode # -1)

C22_Witness ==
    /\ mpc = "returned"
    /\ exitCode = 0
    /\ fpc \notin {"exited", "init"}
    /\ stored # <<>>

\* C23: before shutdown the pending batch never exceeds dbBatchSize rows, and
\* never 2 x dbBatchSize rows at all. Once the sink has observed the
\* cancellation handle it takes rows from the head of the queue, one at a
\* time, only while the batch is below 2 x dbBatchSize rows; it leaves the
\* loop only at a moment when the queue is empty or the batch holds
\* 2 x dbBatchSize rows, and takes no row after that; it then commits the
\* batch in one flush and returns, and nothing is committed after it.
C23_ShutdownDrainIsBounded ==
    /\ [](/\ Len(batch) <= 2 * DbBatchSize
          /\ ~doneClosed => Len(batch) <= DbBatchSize
          /\ (Alive /\ spc = "run") => Len(batch) < DbBatchSize
          /\ spc \in {"drain", "lastFlush"} => doneClosed
          /\ spc = "exited" => batch = <<>>)
    /\ [][(spc = "drain" /\ spc' = "drain" /\ batch' # batch) =>
             /\ Len(batch) < 2 * DbBatchSize /\ logChan # <<>>
             /\ batch' = Append(batch, Head(logChan))
             /\ logChan' = Tail(logChan)
             /\ stored' = stored]_vars
    /\ [][(spc = "drain" /\ (spc' # "drain" \/ stored' # stored)) =>
             /\ logChan = <<>> \/ Len(batch) = 2 * DbBatchSize
             /\ spc' = "lastFlush"
             /\ batch' = batch /\ stored' = stored
             /\ logChan' = logChan]_vars
    /\ [][spc = "lastFlush" =>
             /\ batch' = batch \/ (batch' = <<>> /\ spc' = "exited")
             /\ Len(logChan') >= Len(logChan)
             /\ \A k \in 1..Len(logChan) : logChan'[k] = logChan[k]
             /\ spc' \in {"lastFlush", "exited"}
             /\ stored' # stored =>
                   (stored' = stored \o batch /\ spc' = "exited")
             /\ spc' = "exited" => stored' = stored \o batch]_vars
    /\ [][spc = "exited" => (spc' = "exited" /\ stored' = stored)]_vars

C23_Witness ==
    /\ doneClosed
    /\ exitCode = 1
    /\ Len(batch) = 2 * DbBatchSize
    /\ logChan # <<>>

\* C24: between two refreshes the k-th draw returns the entry at position
\* (k-1) mod P of the pool, so the draws run through the pool in cyclic order
\* and in every window of N consecutive draws each of the P entries is returned
\* floor(N/P) or ceil(N/P) times.
C24_DrawsAreRoundRobin ==
    LET P == Len(pp.proxies)
        d == pph.drawn
        Times(e, i, j) == Cardinality({k \in i..j : d[k].index = e})
    IN  d # <<>> =>
          /\ \A k \in 1..Len(d) :
                /\ d[k].found
                /\ d[k].index = (k - 1) % P
                /\ d[k].proxy = pp.proxies[d[k].index + 1]
          /\ \A i, j \in 1..Len(d) : i <= j =>
                \A e \in 0..(P - 1) :
                    LET N == j - i + 1 IN
                    /\ Times(e, i, j) >= N \div P
                    /\ Times(e, i, j) <= (N + P - 1) \div P

C24_Witness ==
    /\ Len(pp.proxies) = 3
    /\ Len(pph.drawn) = MaxDraws
    /\ pph.refreshes > 0

\* C25: a refresh that fails leaves the pool's entries and its cursor as they
\* were; a pool that exists is never empty and its cursor indexes an entry.
C25_FailedRefreshKeepsThePool ==
    /\ pph.op = "refreshFailed" => pp = pph.before
    /\ pph.op \notin {"none", "failed"} =>
          /\ Len(pp.proxies) >= 1
          /\ pp.current \in 0..(Len(pp.proxies) - 1)

C25_Witness ==
    /\ pph.op = "refreshFailed"
    /\ pph.refreshes >= 2
    /\ Len(pp.proxies) = 3
    /\ pp.current = 2
    /\ pp = pph.before

\* C26: in the CT ingester a get-entries call that was answered 400 Bad Request
\* on any attempt, or with an empty entries list, sends the fetch loop into
\* polling: the step leaves currentIndex, the rows sent and the exit code as
\* they were and does not end the fetch loop.
C26_BadRequestIsEndOfLog ==
    [][(Alive /\ IsCT /\ fpc = "top" /\ ~doneClosed /\ fpc' # "top"
            /\ (rw'.badRequests > 0 \/ rw'.result = "empty"))
        => (fpc' = "poll" /\ currentIndex' = currentIndex /\ sent' = sent
              /\ exitCode' = exitCode /\ ~fetchDoneClosed')]_vars

\* C27: a fetch that failed with a transient error on every attempt of its
\* retry budget does not end the fetch loop. CT: after such a call of
\* fetchEntriesWithRetry the loop has not returned and fetchDone and the row
\* channel are open. Rekor: taking the failed result of a sub-batch leaves the
\* loop collecting the results of the chunk.
ExhaustedRangeFetch ==
    /\ Alive /\ IsCT /\ fpc = "top" /\ ~doneClosed /\ fpc' # "top"
    /\ rw'.result = "failed after attempts" /\ rw'.transient = maxRetries + 1
ExhaustedSubBatchTaken ==
    /\ Alive /\ IsRekor /\ fpc = "collect" /\ ~doneClosed /\ obc.resultChan # <<>>
    /\ Head(obc.resultChan).Error /\ obc'.resultChan = Tail(obc.resultChan)
C27_ExhaustedFetchIsRecoveredLocally ==
    [][/\ ExhaustedRangeFetch =>
             (fpc' # "exited" /\ ~fetchDoneClosed' /\ ~logChanClosed' /\ exitCode' = -1)
       /\ ExhaustedSubBatchTaken =>
             (fpc' = "collect" /\ ~fetchDoneClosed' /\ ~logChanClosed' /\ exitCode' = -1)]_vars

\* C28: in the CT ingester the indices of the rows sent in a run are strictly
\* ascending and not below the start index; as long as every leaf handled has
\* decoded they are start, start+1, ... without a gap and, between two fetches,
\* currentIndex is the index after the last row. currentIndex changes only at
\* the end of a response and then by the number of entries of the response.
\* From start 0 the loop, polling after the log answered 400 or an empty list,
\* has sent the rows 0 .. n-1, n the tree size.
EveryLeafDecoded == Cardinality(handled) = Len(sent)
C28_CTRowsConsecutiveFromStart ==
    /\ [](IsCT /\ resumedAt # -1 =>
            /\ \A i, j \in 1..Len(sent) : i < j => sent[i].index < sent[j].index
            /\ \A k \in 1..Len(sent) : sent[k].index >= resumedAt
            /\ EveryLeafDecoded =>
                  /\ \A k \in 1..Len(sent) : sent[k].index = resumedAt + k - 1
                  /\ fpc \in {"top", "poll"} => currentIndex = resumedAt + Len(sent)
                  /\ (fpc = "poll" /\ resumedAt = 0
                        /\ (rw.result = "empty" \/ rw.badRequests > 0)) =>
                        /\ currentIndex = remoteSize
                        /\ \A k \in 1..remoteSize : sent[k].index = k - 1)
    /\ [][(IsCT /\ Alive /\ fpc \notin {"init"} /\ Alive' /\ currentIndex' # currentIndex)
             => (fpc = "batch" /\ fpc' = "top"
                   /\ currentIndex' = currentIndex + Len(cur.Entries))]_vars

\* C28 witness: started at 0, the loop polls at the end of a log of MaxLog
\* leaves with the rows 0 .. MaxLog-1 sent in order.
C28_Witness ==
    /\ IsCT /\ resumedAt = 0 /\ fpc = "poll" /\ remoteSize = MaxLog
    /\ rw.badRequests > 0
    /\ EveryLeafDecoded
    /\ [k \in 1..Len(sent) |-> sent[k].index] = [k \in 1..MaxLog |-> k - 1]

\* C29: between two chunks of the Rekor fetch loop nothing of the previous
\* chunk is left: no worker is running, the goroutine that closes the collector
\* after the workers has run, the result channel is closed and empty. A chunk
\* is dispatched from such a state only, so the workers running at any time
\* belong to one chunk.
PreviousChunkOver ==
    /\ \A b \in Batches : wk[b] # "run"
    /\ closer # "idle" => (closer = "done" /\ obc.closed /\ obc.resultChan = <<>>)
C29_NextChunkAfterPreviousDrained ==
    /\ [](IsRekor /\ Alive /\ fpc \in {"top", "poll"} => PreviousChunkOver)
    /\ [][(IsRekor /\ Alive /\ Alive' /\ fpc # "init"
             /\ \E b \in Batches : wk[b] # "run" /\ wk'[b] = "run")
          => (fpc = "top" /\ fpc' = "collect" /\ PreviousChunkOver)]_vars

\* C29 witness: a chunk is in flight after an earlier chunk of the run sent
\* rows and was completed.
C29_Witness ==
    /\ IsRekor /\ Alive /\ fpc = "collect" /\ currentIndex > resumedAt
    /\ resumedAt # -1 /\ closer = "armed"
    /\ \E b \in Batches : wk[b] = "run"

\* C30: a Rekor chunk is planned with chunk size min(current concurrency x
\* batch size, total log size - currentIndex). While it is in flight its
\* sub-batches are those of the planning loop: batch indexes 0, 1, 2, ... in
\* dispatch order, each at most the batch size (at most 10) consecutive
\* indexes, together the indexes currentIndex .. currentIndex + chunkSize - 1,
\* each once, all below the total log size.
ChunkInFlight == IsRekor /\ Alive /\ fpc \in {"collect", "batch", "blocked"}
ChunkPlan == plannedBatches(currentIndex, chunkSize, BatchSizeFlag)
SeqRange(q) == {q[i] : i \in 1..Len(q)}
C30_ChunkIsPartitionedIntoSubBatches ==
    /\ [](ChunkInFlight =>
            /\ chunkSize > 0
            /\ {b \in Batches : wk[b] # "idle"} = 0..(Len(ChunkPlan) - 1)
            /\ \A k \in 1..Len(ChunkPlan) :
                  /\ ChunkPlan[k].BatchIndex = k - 1
                  /\ ChunkPlan[k].StartIndex = BatchStart(k - 1)
                  /\ SeqRange(ChunkPlan[k].LogIndexes) = BatchIndexes(k - 1)
                  /\ Len(ChunkPlan[k].LogIndexes) = Cardinality(BatchIndexes(k - 1))
            /\ \A b \in 0..(Len(ChunkPlan) - 1) :
                  /\ BatchIndexes(b) # {}
                  /\ Cardinality(BatchIndexes(b)) <= BatchSizeFlag
                  /\ BatchSizeFlag <= maxBatchSizeFlag
                  /\ \A g \in BatchIndexes(b) : g < calculateTotalLogSize(logInfo)
                  /\ \A c \in 0..(Len(ChunkPlan) - 1) :
                        b # c => BatchIndexes(b) \cap BatchIndexes(c) = {}
            /\ UNION {BatchIndexes(b) : b \in 0..(Len(ChunkPlan) - 1)}
                  = currentIndex..(currentIndex + chunkSize - 1))
    /\ [][(IsRekor /\ Alive /\ fpc = "top" /\ fpc' = "collect") =>
             chunkSize' = Min(rlt.currentConcurrency * BatchSizeFlag,
                              calculateTotalLogSize(logInfo) - currentIndex)]_vars

\* C30 witness: a chunk of two sub-batches in flight whose size is what is
\* left of the log, the second sub-batch shorter than the batch size.
C30_Witness ==
    /\ ChunkInFlight /\ Len(ChunkPlan) = 2
    /\ chunkSize = calculateTotalLogSize(logInfo) - currentIndex
    /\ chunkSize < rlt.originalConcurrency * BatchSizeFlag
    /\ Cardinality(BatchIndexes(1)) < BatchSizeFlag
    /\ wk[1] = "fin" /\ wk[0] = "run"

\* C31: the Rekor fetch loop polls exactly when currentIndex has reached the
\* total log size last observed (active tree plus inactive shards, the size the
\* log had when its state was last fetched): it enters polling from the top of
\* the loop only then and dispatches a chunk only below that size; while it
\* polls no worker runs and none is started; a chunk dispatched after polling
\* finds a total size above currentIndex.
C31_PollingExactlyAtEndOfLog ==
    /\ [](IsRekor /\ Alive /\ fpc # "init" =>
            /\ calculateTotalLogSize(logInfo) = remoteSize
            /\ fpc = "poll" =>
                  (currentIndex >= remoteSize /\ \A b \in Batches : wk[b] # "run")
            /\ ChunkInFlight => currentIndex < remoteSize)
    /\ [][(IsRekor /\ Alive /\ Alive' /\ fpc = "top" /\ fpc' = "poll")
             => currentIndex >= remoteSize]_vars
    /\ [][(IsRekor /\ Alive /\ Alive' /\ fpc = "top" /\ fpc' = "collect")
             => currentIndex < remoteSize]_vars
    /\ [][(IsRekor /\ Alive /\ Alive' /\ fpc = "poll")
             => (wk' = wk /\ currentIndex' = currentIndex
                   /\ fpc' \in {"poll", "top", "exited"})]_vars

\* C31 witness: in the first run the loop pulled up to the size the log had at
\* the start, polled, and pulls again after the refreshed state showed a leaf
\* more.
C31_Witness ==
    /\ IsRekor /\ run = 1 /\ ChunkInFlight
    /\ currentIndex = MaxLog - 1 /\ remoteSize = MaxLog
    /\ Len(sent) >= MaxLog - 1

\* C32: a refresh of the Rekor log state that fails on every attempt while the
\* loop polls leaves the log state, currentIndex and the process as they were:
\* the loop goes back to the top, still at or beyond the total size it knows,
\* and from there it polls again unless the shutdown channel is closed.
FailedRefreshSeen == IsRekor /\ Alive /\ rw.fn = "info" /\ rw.result = "failed"
C32_FailedRefreshKeepsPolling ==
    /\ [][(IsRekor /\ Alive /\ fpc = "poll" /\ fpc' # "poll"
             /\ rw'.fn = "info" /\ rw'.result = "failed")
          => (/\ fpc' = "top" /\ logInfo' = logInfo /\ currentIndex' = currentIndex
              /\ exitCode' = -1 /\ doneClosed' = doneClosed
              /\ ~fetchDoneClosed' /\ ~logChanClosed')]_vars
    /\ [](FailedRefreshSeen /\ fpc = "top" =>
             currentIndex >= calculateTotalLogSize(logInfo))
    /\ [][(FailedRefreshSeen /\ Alive' /\ fpc = "top" /\ fpc' # "top")
          => (fpc' = "poll" \/ (doneClosed /\ fpc' = "exited"))]_vars

\* C32 witness: after rows were sent the refresh failed and the loop is back
\* at the top, the shutdown channel open.
C32_Witness ==
    /\ FailedRefreshSeen /\ fpc = "top" /\ ~doneClosed
    /\ sent # <<>> /\ rw.transient = maxRetries + 1

\* C33: every 429 response a fetch retry loop of the Rekor ingester gets, the
\* one on the last attempt of the call included, is reported to the governor
\* once: the step that counts the response is one OnRateLimit.
C33_EveryRateLimitReachesTheGovernor ==
    [][(rw.pc = "loop" /\ rw.fn \in {"entries", "info"}
           /\ rw'.limited = rw.limited + 1)
       => rlt' = OnRateLimit(rlt, now)]_vars

\* C34: whatever the order of the rate-limit events and chunk successes, the
\* current concurrency of the governor is at least 1 and at most the ceiling,
\* the ceiling never changes, and a governor that is not marked limited stands
\* at the ceiling.
C34_CurrentWithinOneAndCeiling ==
    /\ [](/\ 1 <= rlt.currentConcurrency
          /\ rlt.currentConcurrency <= rlt.originalConcurrency
          /\ ~rlt.rateLimited => rlt.currentConcurrency = rlt.originalConcurrency)
    /\ [][rlt'.originalConcurrency = rlt.originalConcurrency]_vars

\* C34 witness: after events took current down to 1, a recovery step has
\* raised it to a value still below the ceiling.
C34_Witness ==
    /\ rlt.rateLimited /\ gh.events >= 2 /\ gh.recoveries >= 1
    /\ 1 < rlt.currentConcurrency
    /\ rlt.currentConcurrency < rlt.originalConcurrency

\* C35: a worker reads the proxy list of the pool only with the pool's lock
\* held: no step in which the worker reads the list (its length in
\* CreateHTTPClient, the entry under the cursor in GetNextProxy) is taken while
\* the refresh task holds the lock for its swap.
ClientReadsTheList ==
    \/ pph.client = "idle" /\ pph'.client = "checked"
    \/ pph.client = "locked" /\ pph'.client = "idle"
C35_ReadsOfTheListHoldTheLock ==
    [][ClientReadsTheList => pph.mu # "refresher"]_vars

\* C36: the main task uses the circuit breaker only in the resume lookup, and
\* while it is at or in the lookup the sink task, which is already running, has
\* nothing to insert: no row is queued or pending, the fetch task is not
\* started, and no step of the sink runs the insert with its breaker calls.
\* After the lookup only the sink changes the breaker.
MainAtLookup == Alive /\ mpc \in {"resume", "lookup"}
SinkUsesBreaker ==
    \/ stored' # stored
    \/ exitCode = -1 /\ exitCode' = 1 /\ batch' # <<>>
C36_BreakerUsedByOneTaskAtATime ==
    /\ [](MainAtLookup =>
             (batch = <<>> /\ logChan = <<>> /\ fpc = "init" /\ ~doneClosed))
    /\ [][MainAtLookup => ~SinkUsesBreaker]_vars
    /\ [][(Alive /\ Alive' /\ cb' # cb) =>
             (mpc \in {"resume", "lookup"} /\ mpc' # mpc)]_vars
    /\ [][(Alive /\ cb' # cb /\ mpc \notin {"resume", "lookup"}) => SinkUsesBreaker]_vars

\* C36 witness: in a second run, with rows stored by the sink of the first,
\* the main task is inside the lookup while the sink task runs.
C36_Witness ==
    /\ Alive /\ mpc = "lookup" /\ spc = "run"
    /\ run = 2 /\ stored # <<>>

\* A step that executes close(done): the first close marks the channel closed,
\* a close of the closed channel panics (exit status 2).
CloseDoneStep ==
    /\ Alive
    /\ \/ ~doneClosed /\ doneClosed'
       \/ exitCode = -1 /\ exitCode' = 2

\* C37: in every run of the Rekor ingester done is closed at most once: no
\* step closes done when it is closed already, whether the fetch task closed
\* it on a checkpoint mismatch or the main task on a signal or on fetchDone.
C37_DoneClosedAtMostOnce ==
    [][(IsRekor /\ CloseDoneStep) => ~doneClosed]_vars

\* C37, the path through the fetch task alone: without any signal, the main
\* task does not close done after a checkpoint mismatch has closed it.
C37_NoSecondCloseOnFetchDone ==
    [][(IsRekor /\ Alive /\ mpc = "wait" /\ fetchDoneClosed /\ CheckpointMismatchSeen
          /\ mpc' = "wait")
         => exitCode' # 2]_vars

\* C38: in the integrated ingesters the breaker stays closed: a recordFailure
\* is made only by the step that ends the process with status 1 (an insert or a
\* resume lookup that failed on every attempt), so the failure count is at most
\* 1 in every state, it is 0 while the process is alive, and canExecute admits
\* every attempt.
C38_BreakerStaysClosed ==
    /\ [](/\ cb.state = "closed"
          /\ cb.failureCount <= 1
          /\ Alive => (cb.failureCount = 0 /\ canExecute(cb, now)))
    /\ [][(Alive /\ Alive' /\ cb' # cb) => cb'.failureCount = 0]_vars
    /\ [][(Alive /\ cb'.failureCount > cb.failureCount) => exitCode' = 1]_vars

\* C38 witness: the resume lookup of a second run failed on every attempt; the
\* breaker has recorded its one failure and the process has ended with status 1.
C38_Witness ==
    /\ mpc = "lookup" /\ run = 2 /\ stored # <<>>
    /\ cb.failureCount = 1 /\ cb.state = "closed"
    /\ exitCode = 1

\* The packet the last parsePGPPacket call was given, and the length forms
\* as the claim states them.
LastPacket == SubSeq(pgp.data, pgp.at + 1, Len(pgp.data))
NewFormatParsed ==
    /\ pgp.op \in {"parsed", "failed"}
    /\ Len(LastPacket) >= 2
    /\ LastPacket[1] >= 128 /\ (LastPacket[1] \div 64) % 2 = 1
StatedLengthOctets(o1) ==
    IF o1 < 192 THEN 1 ELSE IF o1 < 224 THEN 2 ELSE IF o1 = 255 THEN 5 ELSE 1
StatedBodyLength(d) ==
    IF d[2] < 192 THEN Wide(d[2])
    ELSE IF d[2] < 224 THEN Wide((d[2] - 192) * 256 + d[3] + 192)
    ELSE IF d[2] = 255 THEN Uint32BE(SubSeq(d, 3, 6))
    ELSE WideShl1(d[2] % 32)
LengthAsStated ==
    LET n == StatedLengthOctets(LastPacket[2])
        len == StatedBodyLength(LastPacket)
    IN  Len(LastPacket) >= 1 + n =>
            /\ pgp.res.packetLen = len
            /\ pgp.res.totalLen = WideAdd(len, 1 + n)
            /\ pgp.res.err = "" => pgp.res.consumed = 1 + n + len[2]

\* C39: for a new-format packet whose length octets are present, the body
\* length parsePGPPacket decodes is the one-byte form below 192, the two-byte
\* form from 192 to 223, the five-byte form (four big-endian octets) at 255 and
\* a partial-body span of 1 << (o1 & 0x1f) from 224 to 254, and the total
\* length is header plus length octets plus body length.
C39_NewFormatLengthForms ==
    NewFormatParsed => LengthAsStated

\* The forms below 255 are decoded as stated; only the five-byte form is not.
NewFormatFormsBelow255 ==
    (NewFormatParsed /\ LastPacket[2] # 255) => LengthAsStated

====
